---------------------------- MODULE Spec2Model ----------------------------
(***************************************************************************)
(* A model of src/index.tsx: the builders that turn a structured           *)
(* description (faceted solid or molecule) into a scene group, the pick    *)
(* and restore handlers that keep the highlight set, and the asynchronous  *)
(* handlers (generation, question, session load) that replace the active   *)
(* model.                                                                  *)
(*                                                                         *)
(* Encoding of JavaScript values.  An optional value (a property that may  *)
(* be undefined or null) is a sequence of length 0 or 1.  Indices, faceId  *)
(* and atomIndex keep the source's 0-based numbering; TLA+ sequences are   *)
(* 1-based, so element i of an array is sequence element i + 1.            *)
(***************************************************************************)
EXTENDS Integers, Sequences, FiniteSets, Bags, TLC

None == <<>>
Some(v) == <<v>>
IsSome(o) == Len(o) = 1
Get(o) == o[1]

RECURSIVE Flatten(_)
\* Array.prototype.flat() on an array of arrays.
Flatten(ss) ==
    IF ss = <<>> THEN <<>> ELSE Head(ss) \o Flatten(Tail(ss))

\* ----------------------------------------------------------------------
\* Numbers as JSON.parse yields them: a finite number, Infinity (1e999),
\* or a value that is not a number (a string, null).
Num(n) == [t |-> "number", finite |-> TRUE, v |-> n]
Infinite == [t |-> "number", finite |-> FALSE, v |-> 0]
NotNumber == [t |-> "string", finite |-> FALSE, v |-> 0]
\* Further JSON values where the source expects an index: null, a missing
\* property (undefined), and the non-integer number n + 0.5.
JsonNull == [t |-> "null", finite |-> FALSE, v |-> 0]
Undefined == [t |-> "undefined", finite |-> FALSE, v |-> 0]
Half(n) == [t |-> "fraction", finite |-> TRUE, v |-> n]

\* x >= 0 of JavaScript: null converts to 0, undefined and a non-numeric
\* string to NaN (every comparison false); n + 0.5 >= 0 iff n >= 0.
AtLeastZero(x) ==
    CASE x.t \in {"number", "fraction"} -> x.finite => x.v >= 0
      [] x.t = "null" -> TRUE
      [] OTHER -> FALSE

\* x < n of JavaScript for an integer n; n' + 0.5 < n iff n' < n.
LessThan(x, n) ==
    CASE x.t \in {"number", "fraction"} -> x.finite /\ x.v < n
      [] x.t = "null" -> 0 < n
      [] OTHER -> FALSE

\* array[x] is an element of an array of length n: x is an integer in range
\* (array[null], array[0.5] are undefined).
IsArrayIndex(x, n) == x.t = "number" /\ x.finite /\ x.v \in 0..(n - 1)

\* A parsed document with none of the keys the builders read.
NoData ==
    [vertices |-> None, faces |-> None, labels |-> None, atoms |-> None,
     bonds |-> None, analysis |-> None]

\* Colours (hex values of the source, as strings).
HIGHLIGHT_COLOR == "ffff99"
FACE_COLOR == "03dac6"
BOND_COLOR == "cccccc"

\* THREE.Object3D nodes: type, userData, children and, for a Mesh, the
\* colour its material was built with.  `geom` holds what the node was built
\* from (a triangle's flattened positions, a label's text).
NoUserData == [details |-> None, faceId |-> None, atomPositions |-> None]

Object3D(type, userData, children, color, geom) ==
    [type |-> type, userData |-> userData, children |-> children,
     color |-> color, geom |-> geom]

\* ----------------------------------------------------------------------
\* buildGeometryModel

\* allVertices[index] of JavaScript: undefined outside the array.
VertexAt(allVertices, index) ==
    IF index \in 0..(Len(allVertices) - 1) THEN allVertices[index + 1] ELSE None

\* InvalidVertex without the test of the coordinates (isFinite, typeof).
InvalidVertex_NoCoordinateTest(v) ==
    \/ ~IsSome(v)
    \/ Len(Get(v)) # 3

\* The predicate of faceVerticesArrays.some(...) for one vertex.
InvalidVertex(v) ==
    \/ ~IsSome(v)
    \/ Len(Get(v)) # 3
    \/ \E k \in 1..Len(Get(v)) :
          Get(v)[k].t # "number" \/ ~Get(v)[k].finite

\* The triangle passes both guards of the inner forEach.
TriangleBuilds(triangleData, allVertices) ==
    /\ IsSome(triangleData.indices)
    /\ Len(Get(triangleData.indices)) = 3
    /\ \A k \in 1..3 :
          ~InvalidVertex(VertexAt(allVertices, Get(triangleData.indices)[k]))

\* The mesh built from one triangle that passed the guards.
FaceMesh(triangleData, faceGroup, faceIndex, allVertices) ==
    LET ix == Get(triangleData.indices)
        faceVerticesArrays == [k \in 1..3 |-> Get(VertexAt(allVertices, ix[k]))]
    IN Object3D("Mesh",
                [details |-> faceGroup.details, faceId |-> Some(faceIndex),
                 atomPositions |-> None],
                <<>>, FACE_COLOR, Flatten(faceVerticesArrays))

RECURSIVE TriangleMeshes(_, _, _, _)
\* faceGroup.triangles.forEach from triangle k on: the meshes added, in order.
TriangleMeshes(faceGroup, faceIndex, allVertices, k) ==
    LET triangles == Get(faceGroup.triangles)
    IN IF k > Len(triangles) THEN <<>>
       ELSE (IF TriangleBuilds(triangles[k], allVertices)
             THEN <<FaceMesh(triangles[k], faceGroup, faceIndex, allVertices)>>
             ELSE <<>>)
            \o TriangleMeshes(faceGroup, faceIndex, allVertices, k + 1)

RECURSIVE FaceGroupMeshes(_, _, _)
\* data.faces.forEach from face group i (1-based) on; faceIndex = i - 1.
FaceGroupMeshes(faces, allVertices, i) ==
    IF i > Len(faces) THEN <<>>
    ELSE (IF ~IsSome(faces[i].triangles) THEN <<>>
          ELSE TriangleMeshes(faces[i], i - 1, allVertices, 1))
         \o FaceGroupMeshes(faces, allVertices, i + 1)

RECURSIVE LabelSprites(_, _)
\* data.labels.forEach: one Sprite per label with a text and a position array.
LabelSprites(labels, i) ==
    IF i > Len(labels) THEN <<>>
    ELSE (IF labels[i].text # "" /\ IsSome(labels[i].position)
          THEN <<Object3D("Sprite", NoUserData, <<>>, "", <<labels[i].text>>)>>
          ELSE <<>>)
         \o LabelSprites(labels, i + 1)

ERR_VERTICES == "Invalid JSON structure: 'vertices' array not found or is empty."
ERR_FACES == "Invalid JSON structure: 'faces' array not found or is empty."
ERR_EMPTY_MODEL == "Could not create any valid geometric shapes from the provided JSON."

EmptyGroup == Object3D("Group", NoUserData, <<>>, "", <<>>)
Throw(message) == [ok |-> FALSE, error |-> message, group |-> EmptyGroup]
Return(group) == [ok |-> TRUE, error |-> "", group |-> group]

\* The number of children of type "Mesh".
MeshCount(children) ==
    Cardinality({k \in 1..Len(children) : children[k].type = "Mesh"})

\* buildGeometryModel failing on the first triangle that does not build.
buildGeometryModel_FailOnDefect(data) ==
    IF ~IsSome(data.vertices) \/ Len(Get(data.vertices)) = 0
    THEN Throw(ERR_VERTICES)
    ELSE IF ~IsSome(data.faces) \/ Len(Get(data.faces)) = 0
    THEN Throw(ERR_FACES)
    ELSE LET faces == Get(data.faces)
             meshes == FaceGroupMeshes(faces, Get(data.vertices), 1)
             sprites == IF IsSome(data.labels)
                        THEN LabelSprites(Get(data.labels), 1) ELSE <<>>
             defect == \E i \in 1..Len(faces) :
                          /\ IsSome(faces[i].triangles)
                          /\ \E k \in 1..Len(Get(faces[i].triangles)) :
                                ~TriangleBuilds(Get(faces[i].triangles)[k],
                                                Get(data.vertices))
         IN IF MeshCount(meshes) = 0 \/ defect
            THEN Throw(ERR_EMPTY_MODEL)
            ELSE Return(Object3D("Group", NoUserData, meshes \o sprites, "", <<>>))

buildGeometryModel(data) ==
    IF ~IsSome(data.vertices) \/ Len(Get(data.vertices)) = 0
    THEN Throw(ERR_VERTICES)
    ELSE IF ~IsSome(data.faces) \/ Len(Get(data.faces)) = 0
    THEN Throw(ERR_FACES)
    ELSE LET meshes == FaceGroupMeshes(Get(data.faces), Get(data.vertices), 1)
             sprites == IF IsSome(data.labels)
                        THEN LabelSprites(Get(data.labels), 1) ELSE <<>>
         IN IF MeshCount(meshes) = 0
            THEN Throw(ERR_EMPTY_MODEL)
            ELSE Return(Object3D("Group", NoUserData, meshes \o sprites, "", <<>>))

\* ----------------------------------------------------------------------
\* buildChemistryModel, createAtom, createBond

CHEM_MODEL_SCALE == 3

\* String.prototype.toUpperCase / toLowerCase on the strings the model uses.
ToUpperCase(s) ==
    CASE s = "h" -> "H"
      [] s = "c" -> "C"
      [] s = "o" -> "O"
      [] OTHER -> s

ToLowerCase(s) ==
    CASE s = "Double" -> "double"
      [] s = "DOUBLE" -> "double"
      [] s = "Triple" -> "triple"
      [] s = "TRIPLE" -> "triple"
      [] s = "Single" -> "single"
      [] OTHER -> s

\* CPK_COLORS[el] || CPK_COLORS['DEFAULT']
CPK_COLORS(el) ==
    CASE el = "H" -> "ffffff"
      [] el = "C" -> "808080"
      [] el = "N" -> "0000ff"
      [] el = "O" -> "ff0000"
      [] OTHER -> "ffc0cb"

\* Vector helpers on integer vectors <<x, y, z>>.
MultiplyScalar(v, k) == <<v[1] * k, v[2] * k, v[3] * k>>
SubVectors(a, b) == <<a[1] - b[1], a[2] - b[2], a[3] - b[3]>>
CrossVectors(a, b) ==
    <<a[2] * b[3] - a[3] * b[2], a[3] * b[1] - a[1] * b[3], a[1] * b[2] - a[2] * b[1]>>
Dot(a, b) == a[1] * b[1] + a[2] * b[2] + a[3] * b[3]
ZeroVector == <<0, 0, 0>>

TYPE_ERROR == "TypeError: Cannot read properties of undefined"

\* createAtom throws when atomData.element is undefined (element.toUpperCase()).
AtomBuilds(atomData) == IsSome(atomData.element)

createAtom(atomData, position, index) ==
    LET el == ToUpperCase(Get(atomData.element))
        atomMesh == Object3D("Mesh",
                        [details |-> Some([element |-> Get(atomData.element),
                                           bondAngles |-> atomData.bondAngles,
                                           vseprShape |-> atomData.vseprShape,
                                           atomIndex |-> index]),
                         faceId |-> None, atomPositions |-> None],
                        <<>>, CPK_COLORS(el), <<>>)
        label == Object3D("Sprite", NoUserData, <<>>, "", <<Get(atomData.element)>>)
    IN Object3D("Group", NoUserData, <<atomMesh, label>>, "", position)

\* createBond throws when bondData.type is undefined (type.toLowerCase()).
BondBuilds(bondData) == IsSome(bondData.type)

\* The number of cylinders pushed for a bond type.
CylinderCount(bondType) ==
    IF bondType = "double" THEN 2 ELSE IF bondType = "triple" THEN 3 ELSE 1

\* The direction of the lateral offset before normalize(): path x Y, or
\* path x X when that is (near) zero.  Integer vectors: a non-zero cross
\* product has length >= 1 > 0.01.
OffsetDirection(path) ==
    IF CrossVectors(path, <<0, 1, 0>>) = ZeroVector
    THEN CrossVectors(path, <<1, 0, 0>>)
    ELSE CrossVectors(path, <<0, 1, 0>>)

\* The sign (+1, -1, 0) with which cylinder k of n is displaced.
OffsetSign(n, k) ==
    IF n = 2 THEN (IF k = 1 THEN 1 ELSE -1)
    ELSE IF n = 3 THEN (IF k = 2 THEN 1 ELSE IF k = 3 THEN -1 ELSE 0)
    ELSE 0

createBond(bondData, startPos, endPos, bondName) ==
    LET path == SubVectors(endPos, startPos)
        n == CylinderCount(ToLowerCase(Get(bondData.type)))
        cylinder(k) == Object3D("Mesh", NoUserData, <<>>, BOND_COLOR,
                                MultiplyScalar(OffsetDirection(path), OffsetSign(n, k)))
        cylinderGroup(k) == Object3D("Group", NoUserData, <<cylinder(k)>>, "", <<>>)
    IN Object3D("Group",
                [details |-> Some([name |-> bondName,
                                   type |-> Get(bondData.type),
                                   energy |-> bondData.energy,
                                   startAtomIndex |-> bondData.start.v,
                                   endAtomIndex |-> bondData.end.v]),
                 faceId |-> None, atomPositions |-> None],
                [k \in 1..n |-> cylinderGroup(k)], "", <<>>)

ERR_NO_ATOMS == "Invalid JSON: 'atoms' array not found."
ERR_EMPTY_ATOMS == "Invalid JSON: 'atoms' array cannot be empty."

\* AtomPosition without multiplyScalar(CHEM_MODEL_SCALE).
AtomPosition_Unscaled(atom) ==
    IF IsSome(atom.position) THEN Get(atom.position) ELSE ZeroVector

\* new Vector3().fromArray(atom.position || [0, 0, 0]).multiplyScalar(CHEM_MODEL_SCALE)
AtomPosition(atom) ==
    MultiplyScalar(IF IsSome(atom.position) THEN Get(atom.position) ELSE ZeroVector,
                   CHEM_MODEL_SCALE)

\* The guard of data.bonds.forEach: both ends are indices of atomPositions.
BondInRange(bond, nAtoms) ==
    /\ AtLeastZero(bond.start) /\ LessThan(bond.start, nAtoms)
    /\ AtLeastZero(bond.end) /\ LessThan(bond.end, nAtoms)

\* atomPositions[bond.start], data.atoms[bond.start] and the same for
\* bond.end are elements of the arrays; otherwise data.atoms[...].element
\* is a property access on undefined.
BondResolves(bond, nAtoms) ==
    IsArrayIndex(bond.start, nAtoms) /\ IsArrayIndex(bond.end, nAtoms)

RECURSIVE BondGroups(_, _, _, _)
\* data.bonds.forEach from bond i on: the bond groups added, in order.
BondGroups(bonds, atoms, atomPositions, i) ==
    IF i > Len(bonds) THEN <<>>
    ELSE (IF BondInRange(bonds[i], Len(atomPositions))
          THEN <<createBond(bonds[i], atomPositions[bonds[i].start.v + 1],
                            atomPositions[bonds[i].end.v + 1],
                            <<atoms[bonds[i].start.v + 1].element,
                              atoms[bonds[i].end.v + 1].element>>)>>
          ELSE <<>>)
         \o BondGroups(bonds, atoms, atomPositions, i + 1)

buildChemistryModel(data) ==
    IF ~IsSome(data.atoms) THEN Throw(ERR_NO_ATOMS)
    ELSE IF Len(Get(data.atoms)) = 0 THEN Throw(ERR_EMPTY_ATOMS)
    ELSE LET atoms == Get(data.atoms)
             atomPositions == [i \in 1..Len(atoms) |-> AtomPosition(atoms[i])]
             bonds == IF IsSome(data.bonds) THEN Get(data.bonds) ELSE <<>>
         IN IF \E i \in 1..Len(atoms) : ~AtomBuilds(atoms[i])
            THEN Throw(TYPE_ERROR)
            ELSE IF \E i \in 1..Len(bonds) :
                       /\ BondInRange(bonds[i], Len(atoms))
                       /\ ~BondResolves(bonds[i], Len(atoms)) \/ ~BondBuilds(bonds[i])
            THEN Throw(TYPE_ERROR)
            ELSE Return(Object3D("Group",
                     [details |-> None, faceId |-> None,
                      atomPositions |-> Some(atomPositions)],
                     [i \in 1..Len(atoms) |->
                         createAtom(atoms[i], atomPositions[i], i - 1)]
                       \o BondGroups(bonds, atoms, atomPositions, 1),
                     "", <<>>))

\* ----------------------------------------------------------------------
\* The application state (the module-level `let` variables of the source, the
\* scene, the DOM properties the handlers read or write, and the handlers
\* suspended at an await).  A handler is an operator from a state record to
\* the state record it leaves.

VARIABLES
    currentMode,              \* "geometry", "chemistry" or "null"
    selectedImage,            \* TRUE when an image is selected (non-null)
    highlightedObjects,       \* sequence of [object, originalColor]
    generatedModelData,       \* optional response text
    currentSelectionDetails,  \* optional selectionData
    qaHistory,                \* sequence of QAPair, newest first
    chat,                     \* optional chat (the model data it was created with)
    currentSessionId,         \* optional session id
    generatedObject,          \* optional id of the active built group
    sceneChildren,            \* ids of the built groups attached to the scene
    objects,                  \* the built groups that are still referenced
    angleVisualizationGroup,  \* children of the angle overlay group
    ui,                       \* DOM: disabled / hidden flags, shown contents
    localStorage,             \* the sessions stored under SESSIONS_KEY
    savedSessionsList,        \* the session items rendered in the load modal
    now,                      \* the value Date.now() last returned
    generations,              \* handleGenerateClick calls suspended at an await
    questions,                \* handleAskQuestion calls awaiting the answer
    readers,                  \* FileReader reads in progress
    lastResolved,             \* history: what the pick or restore that ran last resolved
    lastPick,                 \* history: what the pick did whose reference the Q&A history holds
    lastFailed                \* history: the model replacement that failed in the last step

appVars ==
    <<currentMode, selectedImage, highlightedObjects, generatedModelData,
      currentSelectionDetails, qaHistory, chat, currentSessionId, generatedObject,
      sceneChildren, objects, angleVisualizationGroup, ui, localStorage,
      savedSessionsList, now, generations, questions, readers>>

historyVars == <<lastResolved, lastPick, lastFailed>>

\* The input and the result of a builder applied on its own (the
\* specification SpecBuildGeometry below).
VARIABLES bgData, bgResult, bgDone

bgVars == <<bgData, bgResult, bgDone>>

vars == <<appVars, historyVars, bgVars>>

\* No builder is being applied on its own.
bgIdle == bgData = NoData /\ bgResult = Throw("") /\ bgDone = FALSE

\* The current state as a record.
State ==
    [currentMode |-> currentMode, selectedImage |-> selectedImage,
     highlightedObjects |-> highlightedObjects,
     generatedModelData |-> generatedModelData,
     currentSelectionDetails |-> currentSelectionDetails,
     qaHistory |-> qaHistory, chat |-> chat,
     currentSessionId |-> currentSessionId,
     generatedObject |-> generatedObject, sceneChildren |-> sceneChildren,
     objects |-> objects, angleVisualizationGroup |-> angleVisualizationGroup,
     ui |-> ui, localStorage |-> localStorage,
     savedSessionsList |-> savedSessionsList, now |-> now,
     generations |-> generations, questions |-> questions, readers |-> readers]

\* Bounds of the model.
MaxObjects == 2       \* built groups alive at once
MaxInFlight == 1      \* handleGenerateClick calls suspended at once
MaxQuestions == 1     \* questions asked per Q&A history
MaxSessions == 1      \* stored sessions
MaxClock == 1         \* largest value of Date.now()

ObjectIds == 1..MaxObjects

\* ----------------------------------------------------------------------
\* Scene graph helpers

RECURSIVE NodeAt(_, _)
\* The node reached from `node` by following child positions `path`.
NodeAt(node, path) ==
    IF path = <<>> THEN node ELSE NodeAt(node.children[Head(path)], Tail(path))

RECURSIVE Traverse(_, _)
RECURSIVE TraverseChildren(_, _, _)
\* Object3D.traverse from the node at `path`: the paths visited, pre-order.
Traverse(root, path) == <<path>> \o TraverseChildren(root, path, 1)

TraverseChildren(root, path, k) ==
    IF k > Len(NodeAt(root, path).children) THEN <<>>
    ELSE Traverse(root, Append(path, k)) \o TraverseChildren(root, path, k + 1)

ToSet(seq) == {seq[k] : k \in 1..Len(seq)}

\* The Mesh nodes of a group, as paths.
MeshPaths(root) ==
    SelectSeq(Traverse(root, <<>>), LAMBDA p : NodeAt(root, p).type = "Mesh")

\* A built group as kept in memory: its nodes and each mesh's material colour
\* (the group is bound once: x is the value of `group`).
NewObject(group) ==
    CHOOSE o \in {[group |-> x,
                   color |-> [p \in ToSet(MeshPaths(x)) |-> NodeAt(x, p).color]] :
                     x \in {group}} : TRUE

FreeObject == [group |-> EmptyGroup, color |-> <<>>]

\* Garbage collection: a built group is kept while the scene, generatedObject
\* or a highlight entry refers to it.
Referenced(s, id) ==
    \/ s.generatedObject = Some(id)
    \/ id \in s.sceneChildren
    \/ \E k \in 1..Len(s.highlightedObjects) : s.highlightedObjects[k].object.id = id

FreeIds(s) == {id \in ObjectIds : ~Referenced(s, id)}

\* A string property of a details object, "" when the property is absent.
StringField(d, f) == IF f \in DOMAIN d THEN d[f] ELSE ""

\* node.userData.details?.type, "" when undefined.
DetailsType(node) ==
    IF IsSome(node.userData.details)
    THEN StringField(Get(node.userData.details), "type") ELSE ""

\* node.userData.details?.element, "" when undefined.
DetailsElement(node) ==
    IF IsSome(node.userData.details)
    THEN StringField(Get(node.userData.details), "element") ELSE ""

\* node.userData.details?.<f> for an integer property, None when undefined.
DetailsInt(node, f) ==
    IF IsSome(node.userData.details) /\ f \in DOMAIN Get(node.userData.details)
    THEN Some(Get(node.userData.details)[f]) ELSE None

\* ----------------------------------------------------------------------
\* Highlight set

\* material.color.clone(); material.color.setHex(0xffff99); push.
HighlightMesh(s, id, path) ==
    [s EXCEPT !.objects[id].color[path] = HIGHLIGHT_COLOR,
              !.highlightedObjects =
                  Append(@, [object |-> [id |-> id, path |-> path],
                             originalColor |-> s.objects[id].color[path]])]

RECURSIVE HighlightEach(_, _, _)
\* The highlight applied to each mesh of `paths`, in order.
HighlightEach(s, id, paths) ==
    IF paths = <<>> THEN s
    ELSE HighlightEach(HighlightMesh(s, id, Head(paths)), id, Tail(paths))

RECURSIVE RestoreColors(_, _)
\* highlightedObjects.forEach(h => h.object.material.color.copy(h.originalColor))
RestoreColors(objs, hs) ==
    IF hs = <<>> THEN objs
    ELSE RestoreColors(
             [objs EXCEPT ![Head(hs).object.id].color[Head(hs).object.path] =
                              Head(hs).originalColor],
             Tail(hs))

\* ClearHighlights without the restoration of the colours.
ClearHighlights_NoRestore(s) == [s EXCEPT !.highlightedObjects = <<>>]

\* ClearHighlights without `highlightedObjects = []`.
ClearHighlights_KeepEntries(s) ==
    [s EXCEPT !.objects = RestoreColors(s.objects, s.highlightedObjects)]

\* if (highlightedObjects.length > 0) { restore; highlightedObjects = []; }
ClearHighlights(s) ==
    IF Len(s.highlightedObjects) > 0
    THEN [s EXCEPT !.objects = RestoreColors(s.objects, s.highlightedObjects),
                   !.highlightedObjects = <<>>]
    ELSE s

\* ClearSelection without `currentSelectionDetails = null`.
ClearSelection_KeepSelection(s) ==
    [ClearHighlights(s) EXCEPT !.angleVisualizationGroup = <<>>,
                               !.ui.selectionDetailsHidden = TRUE,
                               !.ui.selectionDetailsContent = None]

\* The "clear previous state" block shared by onCanvasClick and
\* reHighlightSelection.
ClearSelection(s) ==
    [ClearHighlights(s) EXCEPT !.angleVisualizationGroup = <<>>,
                               !.ui.selectionDetailsHidden = TRUE,
                               !.ui.selectionDetailsContent = None,
                               !.currentSelectionDetails = None]


\* ----------------------------------------------------------------------
\* displaySelectionDetails

\* Which branch of displaySelectionDetails a details object takes.
DetailsBranch(d) ==
    IF StringField(d, "surfaceArea") # "" THEN "face"
    ELSE IF StringField(d, "element") # "" THEN "atom"
    ELSE IF StringField(d, "type") # "" THEN "bond"
    ELSE "none"

\* details.bondAngles || []
BondAnglesOf(d) ==
    IF "bondAngles" \in DOMAIN d /\ IsSome(d.bondAngles) THEN Get(d.bondAngles) ELSE <<>>

\* The atom branch calls angle.atomsInvolved.join('-'): a TypeError when an
\* entry has no atomsInvolved.
DisplayThrows(details) ==
    /\ IsSome(details)
    /\ DetailsBranch(Get(details)) = "atom"
    /\ \E k \in 1..Len(BondAnglesOf(Get(details))) :
          ~IsSome(BondAnglesOf(Get(details))[k].atomsInvolved)

\* The state displaySelectionDetails leaves (when it throws: the state at the
\* throw, the content already emptied).
displaySelectionDetails(s, details) ==
    IF ~IsSome(details)
    THEN [s EXCEPT !.ui.selectionDetailsHidden = TRUE,
                   !.ui.selectionDetailsContent = None]
    ELSE IF DisplayThrows(details) \/ DetailsBranch(Get(details)) = "none"
    THEN [s EXCEPT !.ui.selectionDetailsContent = None]
    ELSE [s EXCEPT !.ui.selectionDetailsContent = details,
                   !.ui.selectionDetailsHidden = FALSE]

\* ----------------------------------------------------------------------
\* drawAngleVisualization

\* v1.angleTo(v2) < 0.01 on integer vectors: Vector3.angleTo returns PI / 2
\* when either vector has length 0; otherwise the angle is below 0.01 only
\* for two rays in the same direction (coordinates are small integers).
AngleBelowEpsilon(v1, v2) ==
    /\ v1 # ZeroVector /\ v2 # ZeroVector
    /\ CrossVectors(v1, v2) = ZeroVector
    /\ Dot(v1, v2) > 0

\* AngleNormal with (1,0,0) as the only substitute axis.
AngleNormal_SingleAxis(v1, v2) ==
    IF CrossVectors(v1, v2) # ZeroVector THEN CrossVectors(v1, v2)
    ELSE CrossVectors(v1, <<1, 0, 0>>)

\* The normal of the arc before normalize(): v1 x v2, or, when that is
\* (near) zero, v1 x (1,0,0), or v1 x (0,1,0) when v1 is parallel to X
\* (|normalize(v1) . (1,0,0)| > 0.999; normalize() of the zero vector is the
\* zero vector).
AngleNormal(v1, v2) ==
    IF CrossVectors(v1, v2) # ZeroVector THEN CrossVectors(v1, v2)
    ELSE IF v1[1] # 0 /\ v1[2] = 0 /\ v1[3] = 0
    THEN CrossVectors(v1, <<0, 1, 0>>)
    ELSE CrossVectors(v1, <<1, 0, 0>>)

\* The direction of yAxis = normal x xAxis, xAxis being the direction of v1.
AngleYAxis(v1, v2) == CrossVectors(AngleNormal(v1, v2), v1)

\* The bisector normalize(v1) + normalize(v2) without the fallback for a
\* (near) zero sum.
LabelBisector_NoFallback(v1, v2) ==
    [alongYAxis |-> FALSE, yAxis |-> AngleYAxis(v1, v2)]

\* The direction in which the label is placed from pCenter: the bisector
\* normalize(v1) + normalize(v2), replaced by yAxis when its squared length
\* is below 0.0001 (opposite rays, or both rays of length 0).
LabelBisector(v1, v2) ==
    [alongYAxis |-> \/ v1 = ZeroVector /\ v2 = ZeroVector
                    \/ /\ v1 # ZeroVector /\ v2 # ZeroVector
                       /\ CrossVectors(v1, v2) = ZeroVector
                       /\ Dot(v1, v2) < 0,
     yAxis |-> AngleYAxis(v1, v2)]

\* The children of angleVisualizationGroup after the call: the pivot holding
\* the arc, and the label sprite.
drawAngleVisualization(group, p1, pCenter, p2, angleText) ==
    LET v1 == SubVectors(p1, pCenter)
        v2 == SubVectors(p2, pCenter)
    IN IF AngleBelowEpsilon(v1, v2) THEN group
       ELSE group \o <<[type |-> "Object3D", pCenter |-> pCenter, v1 |-> v1,
                        v2 |-> v2, text |-> "",
                        bisector |-> LabelBisector(v1, v2)],
                       [type |-> "Sprite", pCenter |-> pCenter, v1 |-> v1,
                        v2 |-> v2, text |-> angleText,
                        bisector |-> LabelBisector(v1, v2)]>>

\* finalAtomPositions[i]: undefined outside the array.  Positions are kept in
\* the frame of the built group; the group's matrixWorld is one translation
\* applied to all of them alike.
PositionAt(positions, i) ==
    IF i \in 0..(Len(positions) - 1) THEN Some(positions[i + 1]) ELSE None

RECURSIVE DrawBondAngles(_, _, _, _)
\* details.bondAngles.forEach(...) from entry k on.
DrawBondAngles(group, bondAngles, positions, k) ==
    IF k > Len(bondAngles) THEN group
    ELSE LET indices == bondAngles[k].atomsInvolvedIndices
             draws == /\ IsSome(indices)
                      /\ Len(Get(indices)) = 3
                      /\ \A j \in 1..3 : IsSome(PositionAt(positions, Get(indices)[j]))
             next == IF draws
                     THEN drawAngleVisualization(group,
                              Get(PositionAt(positions, Get(indices)[1])),
                              Get(PositionAt(positions, Get(indices)[2])),
                              Get(PositionAt(positions, Get(indices)[3])),
                              bondAngles[k].angle)
                     ELSE group
         IN DrawBondAngles(next, bondAngles, positions, k + 1)

\* The block "if (generatedObject && generatedObject.userData.atomPositions)"
\* of handleHighlight and reHighlightSelection.
DrawAnglesOfAtom(s, details) ==
    LET root == s.objects[Get(s.generatedObject)].group
    IN IF IsSome(s.generatedObject) /\ IsSome(root.userData.atomPositions)
          /\ "bondAngles" \in DOMAIN details /\ IsSome(details.bondAngles)
       THEN [s EXCEPT !.angleVisualizationGroup =
                DrawBondAngles(@, Get(details.bondAngles),
                               Get(root.userData.atomPositions), 1)]
       ELSE s

\* ----------------------------------------------------------------------
\* handleHighlight, onCanvasClick

RECURSIVE BondGroupOf(_, _)
\* The while loop of handleHighlight: from the clicked mesh upwards, the first
\* node whose userData.details.type is set.  The built group's parent is the
\* scene, which carries no details: the walk ends there with no bond group.
BondGroupOf(root, path) ==
    IF DetailsType(NodeAt(root, path)) # "" THEN Some(path)
    ELSE IF path = <<>> THEN None
    ELSE BondGroupOf(root, SubSeq(path, 1, Len(path) - 1))

\* generatedObject.children that are a Mesh with this faceId.
FaceChildren(root, faceId) ==
    SelectSeq([k \in 1..Len(root.children) |-> <<k>>],
              LAMBDA p : /\ NodeAt(root, p).type = "Mesh"
                         /\ NodeAt(root, p).userData.faceId = faceId)

\* The Mesh nodes visited by traverse from the node at `path`.
MeshesUnder(root, path) ==
    SelectSeq(Traverse(root, path), LAMBDA p : NodeAt(root, p).type = "Mesh")

\* The geometry branch of handleHighlight.  selectionData.details is the
\* details object of the tag itself, not a copy of it: detailsOf names the
\* built group whose tag owns the object (None for an object of its own).
HighlightFace(s, id, clickedMesh) ==
    LET root == s.objects[id].group
        faceId == clickedMesh.userData.faceId
        details == clickedMesh.userData.details
        selectionData == [type |-> "geometry_face", id |-> faceId,
                          details |-> Get(details), detailsOf |-> Some(id)]
        s1 == IF IsSome(details)
              THEN [displaySelectionDetails(s, details)
                       EXCEPT !.currentSelectionDetails = Some(selectionData)]
              ELSE s
    IN IF ~IsSome(faceId) THEN s
       ELSE IF DisplayThrows(details) THEN displaySelectionDetails(s, details)
       ELSE HighlightEach(s1, id, FaceChildren(root, faceId))

\* The bond branch of handleHighlight.
HighlightBond(s, id, bondPath) ==
    LET root == s.objects[id].group
        details == NodeAt(root, bondPath).userData.details
        selectionData == [type |-> "chemistry_bond",
                          id |-> <<Get(details).startAtomIndex,
                                   Get(details).endAtomIndex>>,
                          details |-> Get(details), detailsOf |-> Some(id)]
        s1 == [displaySelectionDetails(s, details)
                  EXCEPT !.currentSelectionDetails = Some(selectionData)]
    IN IF DisplayThrows(details) THEN displaySelectionDetails(s, details)
       ELSE HighlightEach(s1, id, MeshesUnder(root, bondPath))

\* The atom branch of handleHighlight.
HighlightAtom(s, id, path) ==
    LET root == s.objects[id].group
        details == NodeAt(root, path).userData.details
        selectionData == [type |-> "chemistry_atom",
                          id |-> <<Get(details).atomIndex>>,
                          details |-> Get(details), detailsOf |-> Some(id)]
        s1 == [displaySelectionDetails(s, details)
                  EXCEPT !.currentSelectionDetails = Some(selectionData)]
    IN IF DisplayThrows(details) THEN displaySelectionDetails(s, details)
       ELSE DrawAnglesOfAtom(HighlightMesh(s1, id, path), Get(details))

\* handleHighlight with a label transparent to the ray: a hit on a Sprite
\* counts as a hit on the first child of the Sprite's parent.
handleHighlight_ThroughLabel(s0, path) ==
    LET s == [s0 EXCEPT !.angleVisualizationGroup = <<>>]
        id == Get(s.generatedObject)
        root == s.objects[id].group
        mesh == IF NodeAt(root, path).type = "Sprite"
                THEN Append(SubSeq(path, 1, Len(path) - 1), 1) ELSE path
        clickedMesh == NodeAt(root, mesh)
    IN IF clickedMesh.type # "Mesh" THEN s
       ELSE IF s.currentMode = "geometry" THEN HighlightFace(s, id, clickedMesh)
       ELSE IF s.currentMode = "chemistry"
       THEN IF IsSome(BondGroupOf(root, mesh))
            THEN HighlightBond(s, id, Get(BondGroupOf(root, mesh)))
            ELSE IF DetailsElement(clickedMesh) # ""
            THEN HighlightAtom(s, id, mesh)
            ELSE s
       ELSE s

handleHighlight(s0, path) ==
    LET s == [s0 EXCEPT !.angleVisualizationGroup = <<>>]
        id == Get(s.generatedObject)
        root == s.objects[id].group
        clickedMesh == NodeAt(root, path)
    IN IF clickedMesh.type # "Mesh" THEN s
       ELSE IF s.currentMode = "geometry" THEN HighlightFace(s, id, clickedMesh)
       ELSE IF s.currentMode = "chemistry"
       THEN IF IsSome(BondGroupOf(root, path))
            THEN HighlightBond(s, id, Get(BondGroupOf(root, path)))
            ELSE IF DetailsElement(clickedMesh) # ""
            THEN HighlightAtom(s, id, path)
            ELSE s
       ELSE s

\* onCanvasClick; `hit` is intersects[0].object as a path in generatedObject,
\* None when the ray hits nothing.
onCanvasClick(s, hit) ==
    LET cleared == ClearSelection(s)
    IN IF ~IsSome(cleared.generatedObject) THEN cleared
       ELSE IF IsSome(hit) THEN handleHighlight(cleared, Get(hit))
       ELSE cleared

\* What a ray can hit first: a Mesh of the active group or a Sprite of it
\* (the first Sprite stands for all of them: handleHighlight reads nothing
\* of a Sprite but its class), or nothing.
Pickable(s) ==
    IF IsSome(s.generatedObject)
    THEN LET root == s.objects[Get(s.generatedObject)].group
             sprites == SelectSeq(Traverse(root, <<>>),
                                  LAMBDA q : NodeAt(root, q).type = "Sprite")
         IN {Some(p) : p \in DOMAIN s.objects[Get(s.generatedObject)].color}
            \cup {Some(sprites[k]) : k \in {j \in {1} : j <= Len(sprites)}}
            \cup {None}
    ELSE {None}

\* ----------------------------------------------------------------------
\* reHighlightSelection

\* case 'chemistry_atom': every Mesh whose details.atomIndex is the id.
AtomMeshes_AnyAtom(root, id) ==
    SelectSeq(Traverse(root, <<>>),
              LAMBDA p : /\ NodeAt(root, p).type = "Mesh"
                         /\ IsSome(DetailsInt(NodeAt(root, p), "atomIndex")))

AtomMeshes(root, id) ==
    SelectSeq(Traverse(root, <<>>),
              LAMBDA p : /\ NodeAt(root, p).type = "Mesh"
                         /\ DetailsInt(NodeAt(root, p), "atomIndex") = id)

RECURSIVE HighlightAtomMeshes(_, _, _, _)
\* For each matching mesh: highlight it, then draw the angles of the context.
HighlightAtomMeshes(s, id, paths, details) ==
    IF paths = <<>> THEN s
    ELSE HighlightAtomMeshes(
             DrawAnglesOfAtom(HighlightMesh(s, id, Head(paths)), details),
             id, Tail(paths), details)

\* case 'chemistry_bond': every Group whose details carry this start and end.
BondGroupsMatching(root, id) ==
    SelectSeq(Traverse(root, <<>>),
              LAMBDA p : /\ NodeAt(root, p).type = "Group"
                         /\ DetailsInt(NodeAt(root, p), "startAtomIndex") = Some(id[1])
                         /\ DetailsInt(NodeAt(root, p), "endAtomIndex") = Some(id[2]))

\* The meshes pushed by the nested traverse, group after group.
BondMeshesMatching(root, id) ==
    LET groups == BondGroupsMatching(root, id)
    IN Flatten([k \in 1..Len(groups) |-> MeshesUnder(root, groups[k])])

reHighlightSelection(s0, selectionContext) ==
    IF ~IsSome(s0.generatedObject) \/ ~IsSome(selectionContext) THEN s0
    ELSE LET ctx == Get(selectionContext)
             id == Get(s0.generatedObject)
             root == s0.objects[id].group
             s1 == [ClearSelection(s0) EXCEPT !.currentSelectionDetails = selectionContext]
             s == displaySelectionDetails(s1, Some(ctx.details))
         IN IF DisplayThrows(Some(ctx.details)) THEN s
            ELSE IF ctx.type = "geometry_face"
            THEN HighlightEach(s, id, FaceChildren(root, ctx.id))
            ELSE IF ctx.type = "chemistry_atom"
            THEN HighlightAtomMeshes(s, id, AtomMeshes(root, ctx.id), ctx.details)
            ELSE IF ctx.type = "chemistry_bond"
            THEN HighlightEach(s, id, BondMeshesMatching(root, ctx.id))
            ELSE s


\* ----------------------------------------------------------------------
\* DOM helpers: showError, clearError, setLoading, checkSavedSessions

showError(s, message) == [s EXCEPT !.ui.errorMessage = Some(message)]

clearError(s) == [s EXCEPT !.ui.errorMessage = None]

setLoading(s, isLoading) ==
    IF isLoading
    THEN [s EXCEPT !.ui.generateBtnDisabled = TRUE,
                   !.ui.loadingHidden = FALSE,
                   !.ui.selectionDetailsHidden = TRUE]
    ELSE [s EXCEPT !.ui.generateBtnDisabled = FALSE,
                   !.ui.loadingHidden = TRUE]

\* loadSessionBtn.disabled = getSavedSessions().length === 0
checkSavedSessions(s) ==
    [s EXCEPT !.ui.loadSessionBtnDisabled = (Len(s.localStorage) = 0)]

\* ----------------------------------------------------------------------
\* selectMode, resetApp, handleImageUpload

selectMode(s, mode) ==
    [s EXCEPT !.currentMode = mode,
              !.ui.modeSelectionHidden = TRUE,
              !.ui.saveSessionBtnHidden = TRUE]

\* scene.remove(generatedObject); generatedObject = null
DetachGeneratedObject(s) ==
    IF IsSome(s.generatedObject)
    THEN [s EXCEPT !.sceneChildren = @ \ {Get(s.generatedObject)},
                   !.generatedObject = None]
    ELSE s

\* History: the handleAskQuestion calls that are suspended when the context
\* is replaced were made in the context that ends here.
Supersede(s) ==
    [s EXCEPT !.questions =
         BagOfAll(LAMBDA q : [q EXCEPT !.superseded = TRUE], @)]

resetApp(s) ==
    LET s1 == [Supersede(s) EXCEPT !.currentMode = "null",
                        !.selectedImage = FALSE,
                        !.generatedModelData = None,
                        !.currentSelectionDetails = None,
                        !.qaHistory = <<>>,
                        !.chat = None,
                        !.currentSessionId = None,
                        !.ui.generateBtnDisabled = TRUE,
                        !.ui.selectionDetailsHidden = TRUE,
                        !.ui.selectionDetailsContent = None,
                        !.ui.saveSessionBtnHidden = TRUE]
        s2 == ClearHighlights(DetachGeneratedObject(clearError(s1)))
    IN checkSavedSessions([s2 EXCEPT !.angleVisualizationGroup = <<>>,
                                     !.ui.modeSelectionHidden = FALSE])

ERR_IMAGE_TYPE == "Please upload a valid JPG or PNG image."
ERR_IMAGE_READ == "Failed to read the image file."

\* handleImageUpload up to reader.readAsDataURL; file is "none" (no file
\* chosen), "other" (neither JPEG nor PNG) or "image".
handleImageUpload(s, file) ==
    IF file = "none"
    THEN [s EXCEPT !.selectedImage = FALSE,
                   !.ui.generateBtnDisabled = TRUE]
    ELSE IF file = "other" THEN showError(s, ERR_IMAGE_TYPE)
    ELSE [clearError(s) EXCEPT !.readers = @ + 1]

\* reader.onload
readerOnload(s) ==
    [s EXCEPT !.readers = @ - 1,
              !.selectedImage = TRUE,
              !.ui.generateBtnDisabled = FALSE]

\* reader.onerror
readerOnerror(s) ==
    [showError(s, ERR_IMAGE_READ) EXCEPT !.readers = @ - 1,
                                         !.selectedImage = FALSE,
                                         !.ui.generateBtnDisabled = TRUE]

\* ----------------------------------------------------------------------
\* The responses and files the environment supplies

Vertex(x, y, z) == Some(<<Num(x), Num(y), Num(z)>>)

Triangle(a, b, c) == [indices |-> Some(<<a, b, c>>)]

FaceInfo == [surfaceArea |-> "8 cm^2", perimeter |-> "12 cm"]

\* A solid: a face group of two triangles and a defective one, a face group
\* without details, a label.
SolidA ==
    [vertices |-> Some(<<Vertex(0, 0, 0), Vertex(1, 0, 0), Vertex(0, 1, 0), Vertex(0, 0, 1)>>),
     faces |-> Some(<<[details |-> Some(FaceInfo),
                       triangles |-> Some(<<Triangle(0, 1, 2), Triangle(1, 2, 3),
                                            Triangle(0, 1, 9)>>)],
                      [details |-> None,
                       triangles |-> Some(<<Triangle(0, 1, 3)>>)]>>),
     labels |-> Some(<<[text |-> "2 cm", position |-> Some(<<0, 0, 0>>)]>>),
     atoms |-> None, bonds |-> None,
     analysis |-> Some([volume |-> "1 cm^3"])]

\* A solid of one face.
SolidB ==
    [vertices |-> Some(<<Vertex(0, 0, 0), Vertex(1, 0, 0), Vertex(0, 1, 0)>>),
     faces |-> Some(<<[details |-> Some(FaceInfo),
                       triangles |-> Some(<<Triangle(0, 1, 2)>>)]>>),
     labels |-> None, atoms |-> None, bonds |-> None, analysis |-> None]

\* A solid none of whose triangles builds.
SolidBad ==
    [vertices |-> Some(<<Vertex(0, 0, 0)>>),
     faces |-> Some(<<[details |-> Some(FaceInfo),
                       triangles |-> Some(<<Triangle(0, 1, 2)>>)]>>),
     labels |-> None, atoms |-> None, bonds |-> None, analysis |-> None]

Atom(element, position, bondAngles) ==
    [element |-> Some(element), position |-> Some(position),
     bondAngles |-> bondAngles, vseprShape |-> None]

Bond(start, end, type) ==
    [start |-> Num(start), end |-> Num(end), type |-> Some(type), energy |-> None]

BondAngle(angle, indices) ==
    [angle |-> angle, atomsInvolved |-> Some(<<"H", "O", "H">>),
     atomsInvolvedIndices |-> Some(indices)]

\* The bond entries molecules are made of (an entry may occur twice in a
\* molecule: two bonds between the same pair of atoms).
BondPool == <<Bond(0, 1, "single"), Bond(1, 2, "Double")>>

\* A molecule: three atoms, the first with two angle entries (one of them
\* naming an atom that does not exist), and the bond entries `bonds` of
\* BondPool.
Molecule(bonds) ==
    [vertices |-> None, faces |-> None, labels |-> None,
     atoms |-> Some(<<Atom("O", <<0, 0, 0>>,
                           Some(<<BondAngle("90", <<1, 0, 2>>),
                                  BondAngle("90", <<1, 0, 7>>)>>)),
                      Atom("H", <<1, 0, 0>>, None),
                      Atom("H", <<0, 1, 0>>, None)>>),
     bonds |-> Some([k \in 1..Len(bonds) |-> BondPool[bonds[k]]]),
     analysis |-> Some([name |-> "water"])]

\* A molecule of one atom.
MoleculeB ==
    [vertices |-> None, faces |-> None, labels |-> None,
     atoms |-> Some(<<Atom("C", <<0, 0, 0>>, None)>>),
     bonds |-> None, analysis |-> None]

\* A molecule whose first atom has an angle entry without atomsInvolved,
\* whose second atom has an entry with a ray of length 0 and an entry
\* without atomsInvolvedIndices, and whose third atom has an entry of two
\* indices before an entry of three.
MoleculeC ==
    [vertices |-> None, faces |-> None, labels |-> None,
     atoms |-> Some(<<Atom("O", <<0, 0, 0>>,
                           Some(<<[angle |-> "104.5", atomsInvolved |-> None,
                                   atomsInvolvedIndices |-> Some(<<1, 0, 2>>)]>>)),
                      Atom("H", <<1, 0, 0>>,
                           Some(<<BondAngle("0", <<1, 1, 0>>),
                                  [angle |-> "90",
                                   atomsInvolved |-> Some(<<"H", "O", "H">>),
                                   atomsInvolvedIndices |-> None]>>)),
                      Atom("H", <<0, 1, 0>>,
                           Some(<<BondAngle("104.5", <<0, 2>>),
                                  BondAngle("104.5", <<2, 0, 1>>)>>))>>),
     bonds |-> Some(<<Bond(0, 1, "single"), Bond(0, 2, "Double")>>),
     analysis |-> None]

\* A response text: empty, or a text that JSON.parse rejects, or the JSON
\* text of a document, identified by the key of the document.
Key(kind, bonds) == [kind |-> kind, bonds |-> bonds]
EmptyText == [empty |-> TRUE, parses |-> FALSE, doc |-> Key("", <<>>)]
BadJson == [empty |-> FALSE, parses |-> FALSE, doc |-> Key("", <<>>)]
Json(key) == [empty |-> FALSE, parses |-> TRUE, doc |-> key]

\* JSON.parse(text) for a text that parses.
JSONparse(text) ==
    CASE text.doc.kind = "SolidA" -> SolidA
      [] text.doc.kind = "SolidB" -> SolidB
      [] text.doc.kind = "SolidBad" -> SolidBad
      [] text.doc.kind = "MoleculeB" -> MoleculeB
      [] text.doc.kind = "MoleculeC" -> MoleculeC
      [] OTHER -> Molecule(text.doc.bonds)

\* Two bond entries between the same pair of atoms.
MoleculeA == Key("Molecule", <<1, 1>>)

Responses ==
    {EmptyText, BadJson, Json(Key("SolidA", <<>>)), Json(MoleculeA),
     Json(Key("MoleculeB", <<>>))}

Files == {"none", "image"}

MaxReaders == 1       \* FileReader reads in progress at once


\* ----------------------------------------------------------------------
\* handleGenerateClick.  The function suspends at four awaits and ends with
\* a timer; a suspended call is a record [pc, data] in the bag `generations`:
\*   "timer1"   await setTimeout 200 (line 1125)
\*   "response" await responsePromise (line 1146)
\*   "timer2"   await setTimeout 200 (line 1182); `data` is the text that
\*              was parsed
\*   "timer3"   await setTimeout 200 (line 1215)
\*   "timer4"   setTimeout(() => setLoading(false), 500) (line 1224)

\* `prior` is a history field: a model was active when the call began.
Suspended(pc, data, prior) == [pc |-> pc, data |-> data, prior |-> prior]

Resume(s, g, pc, data) ==
    [s EXCEPT !.generations =
         (@ (-) SetToBag({g})) (+) SetToBag({Suspended(pc, data, g.prior)})]

Finish(s, g) == [s EXCEPT !.generations = @ (-) SetToBag({g})]

ERR_GENERATE == "An error occurred. Please select a mode and upload an image."
ERR_EMPTY_RESPONSE == "The AI returned an empty response. It might not have interpreted the image."
ERR_REQUEST == "Failed to generate the 3D model. Please try again."
ERR_SYNTAX == "SyntaxError: Unexpected end of JSON input"

\* handleGenerateClick with the guard placed after the detachment of the
\* active model.
handleGenerateClick_DetachFirst(s) ==
    IF ~s.selectedImage \/ s.currentMode = "null"
    THEN showError(DetachGeneratedObject(s), ERR_GENERATE)
    ELSE LET s1 == DetachGeneratedObject(clearError(setLoading(Supersede(s), TRUE)))
         IN [s1 EXCEPT !.ui.qaBtnDisabled = TRUE,
                       !.qaHistory = <<>>,
                       !.generatedModelData = None,
                       !.currentSelectionDetails = None,
                       !.chat = None,
                       !.currentSessionId = None,
                       !.angleVisualizationGroup = <<>>,
                       !.ui.selectionDetailsHidden = TRUE,
                       !.ui.selectionDetailsContent = None,
                       !.ui.saveSessionBtnHidden = TRUE,
                       !.generations = @ (+) SetToBag({Suspended("timer1", EmptyText,
                                                                   IsSome(s.generatedObject))})]

\* The first synchronous part: guard, setLoading(true), detaching the active
\* model, resetting the state, up to the first await.
handleGenerateClick(s) ==
    IF ~s.selectedImage \/ s.currentMode = "null"
    THEN showError(s, ERR_GENERATE)
    ELSE LET s1 == DetachGeneratedObject(clearError(setLoading(Supersede(s), TRUE)))
         IN [s1 EXCEPT !.ui.qaBtnDisabled = TRUE,
                       !.qaHistory = <<>>,
                       !.generatedModelData = None,
                       !.currentSelectionDetails = None,
                       !.chat = None,
                       !.currentSessionId = None,
                       !.angleVisualizationGroup = <<>>,
                       !.ui.selectionDetailsHidden = TRUE,
                       !.ui.selectionDetailsContent = None,
                       !.ui.saveSessionBtnHidden = TRUE,
                       !.generations = @ (+) SetToBag({Suspended("timer1", EmptyText,
                                                                   IsSome(s.generatedObject))})]

\* The catch block without setLoading(false).
GenerateCatch_KeepLoading(s, g, message) == Finish(showError(s, message), g)

\* The catch block.
GenerateCatch(s, g, message) ==
    Finish(setLoading(showError(s, message), FALSE), g)

\* After the first timer: the request is sent.
GenerateSendRequest(s, g) == Resume(s, g, "response", EmptyText)

\* The response arrives (`rejected`: the request promise rejects).
GenerateOnResponse(s, g, rejected, text) ==
    IF rejected THEN GenerateCatch(s, g, ERR_REQUEST)
    ELSE IF text.empty THEN GenerateCatch(s, g, ERR_EMPTY_RESPONSE)
    ELSE LET s1 == [s EXCEPT !.generatedModelData = Some(text),
                             !.chat = Some(text),
                             !.ui.qaBtnDisabled = FALSE,
                             !.ui.saveSessionBtnHidden = FALSE]
         IN IF ~text.parses THEN GenerateCatch(s1, g, ERR_SYNTAX)
            ELSE Resume(s1, g, "timer2", text)

\* The builder chosen by the mode: buildGeometryModel in geometry mode,
\* buildChemistryModel otherwise.
BuildModel(mode, data) ==
    IF mode = "geometry" THEN buildGeometryModel(data) ELSE buildChemistryModel(data)

\* scene.add(resultObject); generatedObject = resultObject
Install(s, group) ==
    LET id == CHOOSE i \in FreeIds(s) : \A j \in FreeIds(s) : i <= j
    IN [s EXCEPT !.objects[id] = NewObject(group),
                 !.sceneChildren = @ \cup {id},
                 !.generatedObject = Some(id)]

\* isModelValid(resultObject): a Group with at least one child.
isModelValid(group) == group.type = "Mesh" \/ (group.type = "Group" /\ Len(group.children) > 0)

ERR_INVALID_MODEL == "Generated JSON did not produce a valid 3D model."

\* GenerateBuild with scene.add(resultObject) moved before the builder's
\* failure is noticed.
GenerateBuild_AttachFirst(s, g) ==
    LET result == BuildModel(s.currentMode, JSONparse(g.data))
    IN IF ~result.ok
       THEN GenerateCatch(IF FreeIds(s) # {} THEN Install(s, result.group) ELSE s,
                          g, result.error)
       ELSE IF ~isModelValid(result.group)
       THEN GenerateCatch(s, g, ERR_INVALID_MODEL)
       ELSE Resume(Install(s, result.group), g, "timer3", EmptyText)

\* After the second timer: the model is built and installed.
GenerateBuild(s, g) ==
    LET result == BuildModel(s.currentMode, JSONparse(g.data))
    IN IF ~result.ok THEN GenerateCatch(s, g, result.error)
       ELSE IF ~isModelValid(result.group)
       THEN GenerateCatch(s, g, ERR_INVALID_MODEL)
       ELSE Resume(Install(s, result.group), g, "timer3", EmptyText)

\* After the third timer: the result panels are shown, the last timer is set.
GenerateFinalize(s, g) == Resume(s, g, "timer4", EmptyText)

\* The last timer: setLoading(false).
GenerateDone(s, g) == Finish(setLoading(s, FALSE), g)


\* ----------------------------------------------------------------------
\* handleAskQuestion.  A call suspended at `await chat.sendMessage` is a
\* record in the bag `questions`: the question.

SORRY == "Sorry, I was unable to answer that question."

\* Up to the await; `question` is qaInput.value.trim(); `withSelection`
\* tells whether the details of a selection are appended to the message
\* (fullQuestion); `superseded` is a history field: the context the
\* question was asked in has been replaced since.
handleAskQuestion(s, question) ==
    IF question = "" \/ ~IsSome(s.chat) THEN s
    ELSE [s EXCEPT !.ui.qaBtnDisabled = TRUE,
                   !.questions = @ (+) SetToBag({[question |-> question,
                                                  withSelection |->
                                                      IsSome(s.currentSelectionDetails),
                                                  superseded |-> FALSE]})]

\* After the await: the answer (or the catch block), then the finally block.
AskOnAnswer(s, q, rejected) ==
    LET pair == IF rejected
                THEN [question |-> q.question, answer |-> SORRY,
                      selectionContext |-> None]
                ELSE [question |-> q.question, answer |-> "answer",
                      selectionContext |-> s.currentSelectionDetails]
    IN [s EXCEPT !.qaHistory = <<pair>> \o @,
                 !.ui.qaBtnDisabled = FALSE,
                 !.questions = @ (-) SetToBag({q})]

\* ----------------------------------------------------------------------
\* Sessions: JSON.stringify / JSON.parse of the session list, handleSaveSession,
\* handleOpenLoadModal, loadSessionState

\* JSON.stringify of a selection reference: the three own properties; a
\* property whose value is undefined is left out (it reads back undefined).
\* The text holds values: what JSON.parse returns are objects of its own.
StringifySelection(sel) ==
    [type |-> sel.type, id |-> sel.id, details |-> sel.details, detailsOf |-> None]

StringifyPair(pair) ==
    [question |-> pair.question, answer |-> pair.answer,
     selectionContext |-> IF IsSome(pair.selectionContext)
                          THEN Some(StringifySelection(Get(pair.selectionContext)))
                          ELSE None]

StringifySession(session) ==
    [id |-> session.id, timestamp |-> session.timestamp,
     modelData |-> session.modelData, mode |-> session.mode,
     qaHistory |-> [k \in 1..Len(session.qaHistory) |->
                       StringifyPair(session.qaHistory[k])]]

\* localStorage.setItem(SESSIONS_KEY, JSON.stringify(sessions))
JSONstringify(sessions) ==
    [k \in 1..Len(sessions) |-> StringifySession(sessions[k])]

\* getSavedSessions(): JSON.parse of the stored text, [] when nothing is stored.
getSavedSessions(s) == s.localStorage

\* sessions.findIndex(s => s.id === id), 1-based; 0 when there is none.
FindIndex(sessions, id) ==
    IF \E k \in 1..Len(sessions) : sessions[k].id = id
    THEN CHOOSE k \in 1..Len(sessions) :
            /\ sessions[k].id = id
            /\ \A j \in 1..(k - 1) : sessions[j].id # id
    ELSE 0

RECURSIVE InsertByTimestamp(_, _)
\* x placed after every element whose timestamp is not smaller.
InsertByTimestamp(sorted, x) ==
    IF sorted = <<>> THEN <<x>>
    ELSE IF Head(sorted).timestamp >= x.timestamp
    THEN <<Head(sorted)>> \o InsertByTimestamp(Tail(sorted), x)
    ELSE <<x>> \o sorted

RECURSIVE SortByTimestamp(_)
\* sessions.sort((a, b) => b.timestamp - a.timestamp): stable, newest first.
SortByTimestamp(sessions) ==
    IF sessions = <<>> THEN <<>>
    ELSE InsertByTimestamp(
             SortByTimestamp(SubSeq(sessions, 1, Len(sessions) - 1)),
             sessions[Len(sessions)])

\* handleSaveSession without the update branch: every save stores a new
\* session.
handleSaveSession_AlwaysNew(s, t) ==
    IF ~IsSome(s.generatedModelData) \/ ~s.selectedImage \/ s.currentMode = "null"
    THEN s
    ELSE LET newSession == [id |-> t, timestamp |-> t,
                            modelData |-> Get(s.generatedModelData),
                            qaHistory |-> s.qaHistory, mode |-> s.currentMode]
         IN checkSavedSessions(
                [s EXCEPT !.currentSessionId = Some(t),
                          !.localStorage = JSONstringify(
                              <<newSession>> \o getSavedSessions(s)),
                          !.now = t])

\* handleSaveSession; t is the value Date.now() returns during the call.
handleSaveSession(s, t) ==
    IF ~IsSome(s.generatedModelData) \/ ~s.selectedImage \/ s.currentMode = "null"
    THEN s
    ELSE LET sessions == getSavedSessions(s)
             sessionToSave(id, timestamp) ==
                 [id |-> id, timestamp |-> timestamp,
                  modelData |-> Get(s.generatedModelData),
                  qaHistory |-> s.qaHistory, mode |-> s.currentMode]
             sessionIndex == IF IsSome(s.currentSessionId)
                             THEN FindIndex(sessions, Get(s.currentSessionId)) ELSE 0
             s1 == IF sessionIndex # 0
                   THEN [s EXCEPT !.localStorage = JSONstringify(SortByTimestamp(
                            [sessions EXCEPT ![sessionIndex] =
                                sessionToSave(Get(s.currentSessionId), t)]))]
                   ELSE [s EXCEPT !.currentSessionId = Some(t),
                                  !.localStorage = JSONstringify(
                                      <<sessionToSave(t, t)>> \o sessions)]
         IN checkSavedSessions([s1 EXCEPT !.now = t])

handleOpenLoadModal(s) ==
    [s EXCEPT !.savedSessionsList = getSavedSessions(s),
              !.ui.loadModalHidden = FALSE]

\* loadModal.classList.add('hidden'): the items stay in the DOM but cannot be
\* clicked before handleOpenLoadModal rebuilds the list; the model drops them.
closeModal(s) == [s EXCEPT !.ui.loadModalHidden = TRUE, !.savedSessionsList = <<>>]

ERR_LOAD == "Failed to load the 3D model from saved data."

loadSessionState(s, session) ==
    LET s1 == [resetApp(s) EXCEPT !.currentSessionId = Some(session.id),
                                  !.currentMode = session.mode,
                                  !.generatedModelData = Some(session.modelData),
                                  !.qaHistory = session.qaHistory,
                                  !.selectedImage = TRUE,
                                  !.ui.modeSelectionHidden = TRUE,
                                  !.chat = Some(session.modelData)]
        result == BuildModel(session.mode, JSONparse(session.modelData))
        s2 == Install(s1, result.group)
    IN IF ~session.modelData.parses \/ ~result.ok
       THEN resetApp(showError(s1, ERR_LOAD))
       ELSE [s2 EXCEPT !.ui.qaBtnDisabled = FALSE,
                       !.ui.saveSessionBtnHidden = FALSE]

\* The click listener of a session item of the load modal.
SessionItemClick(s, session) == closeModal(loadSessionState(s, session))


\* ----------------------------------------------------------------------
\* History variables: what the last pick or restore resolved

IsPrefix(q, p) == Len(q) <= Len(p) /\ SubSeq(p, 1, Len(q)) = q

\* The prefixes of a path: the node and its ancestors.
Prefixes(p) == {SubSeq(p, 1, k) : k \in 0..Len(p)}

\* The Mesh nodes of the active model, as a set of paths.
Primitives(s) == DOMAIN s.objects[Get(s.generatedObject)].color

\* The primitives of the entity under a hit: the triangles of the hit face,
\* the cylinders of the bond entry holding the hit cylinder, the hit sphere.
PickedEntity(s, hit) ==
    IF ~IsSome(s.generatedObject) \/ ~IsSome(hit) THEN {}
    ELSE LET root == s.objects[Get(s.generatedObject)].group
             p == Get(hit)
             node == NodeAt(root, p)
             bondGroups == {g \in Prefixes(p) : DetailsType(NodeAt(root, g)) # ""}
         IN IF node.type # "Mesh" THEN {}
            ELSE IF s.currentMode = "geometry"
            THEN {q \in Primitives(s) :
                     /\ IsSome(node.userData.faceId)
                     /\ NodeAt(root, q).userData.faceId = node.userData.faceId}
            ELSE IF s.currentMode = "chemistry"
            THEN IF bondGroups # {}
                 THEN {q \in Primitives(s) :
                          \E g \in bondGroups :
                             /\ IsPrefix(g, q)
                             /\ \A h \in bondGroups : Len(h) <= Len(g)}
                 ELSE IF DetailsElement(node) # "" THEN {p} ELSE {}
            ELSE {}

\* The primitives a stored reference designates in the active model.
ReferencedEntity(s, ctx) ==
    IF ~IsSome(s.generatedObject) THEN {}
    ELSE LET root == s.objects[Get(s.generatedObject)].group
         IN IF ctx.type = "geometry_face"
            THEN {q \in Primitives(s) : NodeAt(root, q).userData.faceId = ctx.id}
            ELSE IF ctx.type = "chemistry_atom"
            THEN {q \in Primitives(s) :
                     DetailsInt(NodeAt(root, q), "atomIndex") = ctx.id}
            ELSE {q \in Primitives(s) :
                     \E g \in Prefixes(q) :
                        /\ NodeAt(root, g).type = "Group"
                        /\ DetailsInt(NodeAt(root, g), "startAtomIndex") = Some(ctx.id[1])
                        /\ DetailsInt(NodeAt(root, g), "endAtomIndex") = Some(ctx.id[2])}

\* The highlighted primitives of the active model, by highlightedObjects.
HighlightSetOf(s) ==
    IF ~IsSome(s.generatedObject) THEN {}
    ELSE {s.highlightedObjects[k].object.path :
            k \in {j \in 1..Len(s.highlightedObjects) :
                      s.highlightedObjects[j].object.id = Get(s.generatedObject)}}

\* What a pick that recorded a reference did: the reference, the group it
\* was made on, the primitives highlighted, the overlays, the details shown.
PickRecord(s) ==
    [ref |-> Get(s.currentSelectionDetails),
     group |-> s.objects[Get(s.generatedObject)].group,
     highlighted |-> HighlightSetOf(s),
     entries |-> Len(s.highlightedObjects),
     overlays |-> s.angleVisualizationGroup,
     shown |-> s.ui.selectionDetailsContent,
     rebuilt |-> FALSE]

\* ----------------------------------------------------------------------
\* The state machine

InitUi ==
    [generateBtnDisabled |-> TRUE, qaBtnDisabled |-> FALSE,
     loadSessionBtnDisabled |-> TRUE,
     loadingHidden |-> TRUE,
     selectionDetailsHidden |-> TRUE, selectionDetailsContent |-> None,
     saveSessionBtnHidden |-> TRUE, modeSelectionHidden |-> FALSE,
     loadModalHidden |-> TRUE, errorMessage |-> None]

\* The module-level state after initializeApp with the given stored sessions.
InitialState(stored) ==
    [currentMode |-> "null", selectedImage |-> FALSE,
     highlightedObjects |-> <<>>, generatedModelData |-> None,
     currentSelectionDetails |-> None, qaHistory |-> <<>>, chat |-> None,
     currentSessionId |-> None, generatedObject |-> None, sceneChildren |-> {},
     objects |-> [id \in ObjectIds |-> FreeObject],
     angleVisualizationGroup |-> <<>>,
     ui |-> [InitUi EXCEPT !.loadSessionBtnDisabled = (Len(stored) = 0)],
     localStorage |-> stored, savedSessionsList |-> <<>>, now |-> 1,
     generations |-> EmptyBag, questions |-> EmptyBag, readers |-> 0]

InitApp(stored) ==
    /\ currentMode = InitialState(stored).currentMode
    /\ selectedImage = InitialState(stored).selectedImage
    /\ highlightedObjects = InitialState(stored).highlightedObjects
    /\ generatedModelData = InitialState(stored).generatedModelData
    /\ currentSelectionDetails = InitialState(stored).currentSelectionDetails
    /\ qaHistory = InitialState(stored).qaHistory
    /\ chat = InitialState(stored).chat
    /\ currentSessionId = InitialState(stored).currentSessionId
    /\ generatedObject = InitialState(stored).generatedObject
    /\ sceneChildren = InitialState(stored).sceneChildren
    /\ objects = InitialState(stored).objects
    /\ angleVisualizationGroup = InitialState(stored).angleVisualizationGroup
    /\ ui = InitialState(stored).ui
    /\ localStorage = stored
    /\ savedSessionsList = InitialState(stored).savedSessionsList
    /\ now = InitialState(stored).now
    /\ generations = InitialState(stored).generations
    /\ questions = InitialState(stored).questions
    /\ readers = InitialState(stored).readers
    /\ lastResolved = None
    /\ lastPick = None
    /\ lastFailed = None

\* A session as handleSaveSession stores it.
StoredSession(key, mode, history) ==
    [id |-> 1, timestamp |-> 1, modelData |-> Json(key), mode |-> mode,
     qaHistory |-> history]

\* The Q&A history the program holds when one question is answered while
\* the entity under `hit` of the model of `doc` is selected.
AnsweredWith(key, mode, hit) ==
    LET loaded == loadSessionState(InitialState(<<>>), StoredSession(key, mode, <<>>))
        asked == handleAskQuestion(onCanvasClick(loaded, Some(hit)), "question")
    IN AskOnAnswer(asked, CHOOSE q \in BagToSet(asked.questions) : TRUE, FALSE).qaHistory

\* The sessions a previous run of the program left in localStorage: a
\* molecule saved with one answered question, asked while its second bond
\* entry was selected (a cylinder of it was hit).
StoredSessions ==
    { JSONstringify(<<StoredSession(MoleculeA, "chemistry",
                                    AnsweredWith(MoleculeA, "chemistry", hit))>>) :
        hit \in {<<5, 1, 1>>} }

Init == (\E stored \in StoredSessions : InitApp(stored)) /\ bgIdle

\* The next state is n (built groups that nothing refers to are dropped);
\* the history variables record the handler and what it resolved.
ApplyWith(next, resolved, pick, failed) ==
    \E n \in {next} :
        /\ currentMode' = n.currentMode
        /\ selectedImage' = n.selectedImage
        /\ highlightedObjects' = n.highlightedObjects
        /\ generatedModelData' = n.generatedModelData
        /\ currentSelectionDetails' = n.currentSelectionDetails
        /\ qaHistory' = n.qaHistory
        /\ chat' = n.chat
        /\ currentSessionId' = n.currentSessionId
        /\ generatedObject' = n.generatedObject
        /\ sceneChildren' = n.sceneChildren
        /\ objects' = [id \in ObjectIds |->
                          IF Referenced(n, id) THEN n.objects[id] ELSE FreeObject]
        /\ angleVisualizationGroup' = n.angleVisualizationGroup
        /\ ui' = n.ui
        /\ localStorage' = n.localStorage
        /\ savedSessionsList' = n.savedSessionsList
        /\ now' = n.now
        /\ generations' = n.generations
        /\ questions' = n.questions
        /\ readers' = n.readers
        /\ lastResolved' = resolved
        /\ lastPick' = pick
        /\ lastFailed' = failed
        /\ UNCHANGED bgVars

Apply(next, resolved, pick) == ApplyWith(next, resolved, pick, None)

\* A model replacement ended with an error; `prior`: a model was active when
\* the handler was called.
Failed(handler, prior) == [handler |-> handler, prior |-> prior]


\* The details object the pick of `hit` displays (None when there is none).
PickedDetails(s, hit) ==
    LET root == s.objects[Get(s.generatedObject)].group
        p == Get(hit)
    IN IF s.currentMode = "geometry" THEN NodeAt(root, p).userData.details
       ELSE IF IsSome(BondGroupOf(root, p))
       THEN NodeAt(root, Get(BondGroupOf(root, p))).userData.details
       ELSE NodeAt(root, p).userData.details

\* The pick ends with an exception raised by displaySelectionDetails.
PickThrows(s, hit) ==
    PickedEntity(s, hit) # {} /\ DisplayThrows(PickedDetails(s, hit))

\* The handler that ran last was a pick or a restore: whether it ended with
\* an exception, and the primitives of the entity it resolved.
Resolved(handler, threw, primitives) ==
    [handler |-> handler, threw |-> threw, primitives |-> primitives,
     onLabel |-> FALSE]

\* intersects[0].object is a Sprite: a label of the active model.
HitLabel(s, hit) ==
    /\ IsSome(s.generatedObject)
    /\ IsSome(hit)
    /\ NodeAt(s.objects[Get(s.generatedObject)].group, Get(hit)).type = "Sprite"

Modes == {"geometry", "chemistry"}

SelectMode ==
    /\ ~ui.modeSelectionHidden
    /\ \E mode \in Modes : Apply(selectMode(State, mode), None, lastPick)

Reset == Apply(resetApp(State), None, lastPick)

ImageUpload ==
    \E file \in Files :
        /\ file = "image" => readers < MaxReaders
        /\ Apply(handleImageUpload(State, file), None, lastPick)

ReaderOnload ==
    /\ readers > 0
    /\ Apply(readerOnload(State), None, lastPick)

ReaderOnerror ==
    /\ readers > 0
    /\ Apply(readerOnerror(State), None, lastPick)

GenerateClick ==
    /\ ~ui.generateBtnDisabled
    /\ BagCardinality(generations) < MaxInFlight
    /\ Apply(handleGenerateClick(State), None, lastPick)

GenerateTimer1 ==
    \E g \in BagToSet(generations) :
        /\ g.pc = "timer1"
        /\ Apply(GenerateSendRequest(State, g), None, lastPick)

GenerateResponse ==
    \E g \in BagToSet(generations) :
        /\ g.pc = "response"
        /\ \E rejected \in BOOLEAN, text \in Responses :
              /\ rejected => text = EmptyText
              /\ LET n == GenerateOnResponse(State, g, rejected, text)
                 IN ApplyWith(n, None, lastPick,
                              IF BagCardinality(n.generations) >= BagCardinality(generations)
                              THEN None
                              ELSE Some(Failed("handleGenerateClick", g.prior)))

\* The install needs an identifier for the new group.
GenerateTimer2 ==
    \E g \in BagToSet(generations) :
        /\ g.pc = "timer2"
        /\ BuildModel(currentMode, JSONparse(g.data)).ok => FreeIds(State) # {}
        /\ \E n \in {GenerateBuild(State, g)} :
              ApplyWith(n, None, lastPick,
                        IF BagCardinality(n.generations) >= BagCardinality(generations)
                        THEN None
                        ELSE Some(Failed("handleGenerateClick", g.prior)))

GenerateTimer3 ==
    \E g \in BagToSet(generations) :
        /\ g.pc = "timer3"
        /\ Apply(GenerateFinalize(State, g), None, lastPick)

GenerateTimer4 ==
    \E g \in BagToSet(generations) :
        /\ g.pc = "timer4"
        /\ Apply(GenerateDone(State, g), None, lastPick)

CanvasClick(track) ==
    \E hit \in Pickable(State) :
        LET n == onCanvasClick(State, hit)
        IN Apply(n,
                 Some([Resolved("onCanvasClick", PickThrows(State, hit),
                                PickedEntity(State, hit))
                          EXCEPT !.onLabel = HitLabel(State, hit)]),
                 IF ~track \/ \E k \in 1..Len(qaHistory) :
                                 IsSome(qaHistory[k].selectionContext)
                 THEN lastPick
                 ELSE IF IsSome(n.currentSelectionDetails) THEN Some(PickRecord(n))
                 ELSE None)

\* A click on a question of the rendered history that carries a reference.
QuestionClick ==
    \E k \in 1..Len(qaHistory) :
        /\ IsSome(qaHistory[k].selectionContext)
        /\ LET ctx == Get(qaHistory[k].selectionContext)
           IN Apply(reHighlightSelection(State, qaHistory[k].selectionContext),
                    Some(Resolved("reHighlightSelection",
                                  DisplayThrows(Some(ctx.details)),
                                  ReferencedEntity(State, ctx))),
                    lastPick)

AskQuestion ==
    \E question \in {"", "question"} :
        /\ question # "" => BagCardinality(questions) + Len(qaHistory) < MaxQuestions
        /\ Apply(handleAskQuestion(State, question), None, lastPick)

AnswerArrives ==
    /\ Len(qaHistory) < MaxQuestions
    /\ \E q \in BagToSet(questions), rejected \in BOOLEAN :
          Apply(AskOnAnswer(State, q, rejected), None, lastPick)

\* The click on saveSessionBtn, with the clock and the stored list bounded.
\* Date.now() at a save that creates a session is a value no stored session
\* has as its id: such saves are at least a user action apart.
SaveSessionUpTo(maxClock, maxSessions) ==
    /\ ~ui.saveSessionBtnHidden
    /\ \E t \in {now, now + 1} :
          /\ t <= maxClock
          /\ LET n == handleSaveSession(State, t)
             IN /\ Len(n.localStorage) <= maxSessions
                /\ Len(n.localStorage) > Len(localStorage)
                      => \A k \in 1..Len(localStorage) : localStorage[k].id # t
                /\ Apply(n, None, lastPick)

SaveSession == SaveSessionUpTo(MaxClock, MaxSessions)

OpenLoadModal ==
    /\ ~ui.loadSessionBtnDisabled
    /\ Apply(handleOpenLoadModal(State), None, lastPick)

CloseModal ==
    /\ ~ui.loadModalHidden
    /\ Apply(closeModal(State), None, lastPick)

SessionItem(track) ==
    /\ ~ui.loadModalHidden
    /\ \E k \in 1..Len(savedSessionsList) :
          LET n == SessionItemClick(State, savedSessionsList[k])
          IN ApplyWith(n, None,
                       IF track /\ IsSome(lastPick)
                       THEN Some([Get(lastPick) EXCEPT !.rebuilt = TRUE])
                       ELSE lastPick,
                       IF IsSome(n.generatedObject) THEN None
                       ELSE Some(Failed("loadSessionState", IsSome(generatedObject))))

\* Generation, loading and picking, from the sessions of StoredSessions.
Next ==
    \/ SelectMode
    \/ Reset
    \/ ImageUpload
    \/ ReaderOnload
    \/ ReaderOnerror
    \/ GenerateClick
    \/ GenerateTimer1
    \/ GenerateResponse
    \/ GenerateTimer2
    \/ GenerateTimer3
    \/ GenerateTimer4
    \/ CanvasClick(FALSE)
    \/ QuestionClick
    \/ OpenLoadModal
    \/ CloseModal
    \/ SessionItem(FALSE)

Spec == Init /\ [][Next]_vars

\* ----------------------------------------------------------------------
\* Generation under fair scheduling: the timers of a suspended
\* handleGenerateClick fire and its request settles, whatever the user does
\* with the mode, the image and the reset control meanwhile.

NextGenerate ==
    \/ SelectMode
    \/ Reset
    \/ ImageUpload
    \/ ReaderOnload
    \/ ReaderOnerror
    \/ GenerateClick
    \/ GenerateTimer1
    \/ GenerateResponse
    \/ GenerateTimer2
    \/ GenerateTimer3
    \/ GenerateTimer4

SpecGenerate ==
    /\ Init
    /\ [][NextGenerate]_vars
    /\ WF_vars(GenerateTimer1)
    /\ WF_vars(GenerateResponse)
    /\ WF_vars(GenerateTimer2)
    /\ WF_vars(GenerateTimer3)
    /\ WF_vars(GenerateTimer4)

\* ----------------------------------------------------------------------
\* Questions and sessions: a stored session is loaded, entities are picked,
\* questions asked, the session saved, loaded again and its references
\* restored.

MaxBonds == 2         \* bond entries of a stored molecule

\* Sequences over S of length at most n.
SeqUpTo(S, n) == UNION {[1..k -> S] : k \in 0..n}

\* The stored descriptions: the molecules of at most MaxBonds entries of
\* BondPool, taken in the order of the pool from its first entry on (an
\* entry may be repeated), and a solid.
SessionKeys ==
    {Key("Molecule", bonds) :
        bonds \in {b \in SeqUpTo(1..Len(BondPool), MaxBonds) :
                      /\ Len(b) > 0 => b[1] = 1
                      /\ \A k \in 1..(Len(b) - 1) : b[k] <= b[k + 1]}}
        \cup {Key("SolidA", <<>>)}

ModeOf(key) == IF key.kind = "Molecule" THEN "chemistry" ELSE "geometry"

InitSessions ==
    /\ \E key \in SessionKeys :
          InitApp(JSONstringify(<<StoredSession(key, ModeOf(key), <<>>)>>))
    /\ bgIdle

NextSessions ==
    \/ OpenLoadModal
    \/ CloseModal
    \/ SessionItem(TRUE)
    \/ CanvasClick(TRUE)
    \/ QuestionClick
    \/ AskQuestion
    \/ AnswerArrives
    \/ SaveSession

SpecSessions == InitSessions /\ [][NextSessions]_vars

\* ----------------------------------------------------------------------
\* Loading, picking and restoring on what localStorage may hold: sessions
\* whose model fails to build or to parse, a molecule with malformed angle
\* entries, a solid stored with a reference to a face it does not have.

\* A reference to face 7, as a Q&A pair of a stored session.
StaleFacePair ==
    <<[question |-> "question", answer |-> "answer",
       selectionContext |-> Some([type |-> "geometry_face", id |-> Some(7),
                                  details |-> FaceInfo, detailsOf |-> None])]>>

LoadPool ==
    { StoredSession(Key("MoleculeC", <<>>), "chemistry", <<>>),
      StoredSession(Key("SolidA", <<>>), "geometry", StaleFacePair),
      StoredSession(MoleculeA, "chemistry",
                    AnsweredWith(MoleculeA, "chemistry", <<1, 1>>)),
      StoredSession(Key("SolidBad", <<>>), "geometry", <<>>),
      [StoredSession(Key("", <<>>), "geometry", <<>>) EXCEPT !.modelData = BadJson] }

\* The stored lists: two different sessions of the pool.
InitLoad ==
    /\ \E first \in LoadPool :
          \E second \in LoadPool \ {first} :
             InitApp(JSONstringify(<<first, [second EXCEPT !.id = 2]>>))
    /\ bgIdle

NextLoad ==
    \/ OpenLoadModal
    \/ CloseModal
    \/ SessionItem(FALSE)
    \/ CanvasClick(FALSE)
    \/ QuestionClick

SpecLoad == InitLoad /\ [][NextLoad]_vars

\* ----------------------------------------------------------------------
\* Saving: models are generated, questions asked, sessions saved, saved
\* again and loaded, next to a session a previous run stored.

MaxSaveClock == 2     \* largest value of Date.now() at a save
MaxSaved == 2         \* stored sessions

\* The state after a generation that ran to its end on the freshly started
\* program: mode chosen, image read, Generate clicked, the response `text`
\* parsed and built, the last timer fired.
Generated(stored, mode, text) ==
    LET pending(s) == CHOOSE g \in BagToSet(s.generations) : TRUE
        s1 == readerOnload(handleImageUpload(selectMode(InitialState(stored), mode),
                                             "image"))
        s2 == handleGenerateClick(s1)
        s3 == GenerateSendRequest(s2, pending(s2))
        s4 == GenerateOnResponse(s3, pending(s3), FALSE, text)
        s5 == GenerateBuild(s4, pending(s4))
        s6 == GenerateFinalize(s5, pending(s5))
    IN GenerateDone(s6, pending(s6))

\* The variables hold the state s0; nothing has been picked or has failed.
InitState(s0) ==
    /\ currentMode = s0.currentMode
    /\ selectedImage = s0.selectedImage
    /\ highlightedObjects = s0.highlightedObjects
    /\ generatedModelData = s0.generatedModelData
    /\ currentSelectionDetails = s0.currentSelectionDetails
    /\ qaHistory = s0.qaHistory
    /\ chat = s0.chat
    /\ currentSessionId = s0.currentSessionId
    /\ generatedObject = s0.generatedObject
    /\ sceneChildren = s0.sceneChildren
    /\ objects = s0.objects
    /\ angleVisualizationGroup = s0.angleVisualizationGroup
    /\ ui = s0.ui
    /\ localStorage = s0.localStorage
    /\ savedSessionsList = s0.savedSessionsList
    /\ now = s0.now
    /\ generations = s0.generations
    /\ questions = s0.questions
    /\ readers = s0.readers
    /\ lastResolved = None
    /\ lastPick = None
    /\ lastFailed = None

\* A model has been generated next to a session a previous run stored.
InitSave ==
    /\ \E key \in {Key("SolidA", <<>>), MoleculeA} :
          InitState(Generated(
              JSONstringify(<<StoredSession(Key("MoleculeB", <<>>), "chemistry", <<>>)>>),
              ModeOf(key), Json(key)))
    /\ bgIdle

NextSave ==
    \/ Reset
    \/ AskQuestion
    \/ AnswerArrives
    \/ SaveSessionUpTo(MaxSaveClock, MaxSaved)
    \/ OpenLoadModal
    \/ CloseModal
    \/ SessionItem(FALSE)

SpecSave == InitSave /\ [][NextSave]_vars


\* ----------------------------------------------------------------------
\* buildGeometryModel as a function of its input: the specification
\* SpecBuildGeometry draws a solid description from the bounded sets below
\* and applies the builder to it.

MaxVertices == 2
MaxFaces == 2
MaxTriangles == 2

VertexPool ==
    { Some(<<Num(0), Num(0), Num(0)>>),
      Some(<<Num(1), Num(0), Num(0)>>),
      Some(<<Num(0), Num(1)>>),
      Some(<<Num(0), Infinite, Num(0)>>),
      Some(<<NotNumber, Num(0), Num(0)>>),
      None }

TrianglePool ==
    { [indices |-> Some(<<0, 0, 0>>)],
      [indices |-> Some(<<0, 1, 0>>)],
      [indices |-> Some(<<0, 0, 99>>)],
      [indices |-> Some(<<0, 1>>)],
      [indices |-> Some(<<0, 1, 0, 1>>)],
      [indices |-> None] }

FaceDetails == [surfaceArea |-> "24 cm^2", perimeter |-> "20 cm"]

FaceGroupPool ==
    { [details |-> Some(FaceDetails), triangles |-> t] :
        t \in {None} \cup {Some(ts) : ts \in SeqUpTo(TrianglePool, MaxTriangles)} }

LabelPool ==
    { None, Some(<<[text |-> "5cm", position |-> Some(<<0, 0, 0>>)]>>) }

SolidDescriptions ==
    { [vertices |-> v, faces |-> f, labels |-> l, atoms |-> None, bonds |-> None,
       analysis |-> None] :
        v \in {None} \cup {Some(vs) : vs \in SeqUpTo(VertexPool, MaxVertices)},
        f \in {None} \cup {Some(fs) : fs \in SeqUpTo(FaceGroupPool, MaxFaces)},
        l \in LabelPool }

bgInit ==
    /\ InitApp(<<>>)
    /\ bgData \in SolidDescriptions
    /\ bgResult = Throw("")
    /\ bgDone = FALSE

RunBuildGeometry ==
    /\ ~bgDone
    /\ bgResult' = buildGeometryModel(bgData)
    /\ bgDone' = TRUE
    /\ UNCHANGED <<bgData, appVars, historyVars>>

SpecBuildGeometry == bgInit /\ [][RunBuildGeometry]_vars

\* ----------------------------------------------------------------------
\* buildChemistryModel on its own: the description is drawn from bounded
\* pools (bgData), the builder is applied once (bgResult).

MaxAtoms == 2         \* atoms of a molecule description

\* Atoms: well formed (one with a lower-case element), two at the same
\* position, one above another (a bond parallel to the Y axis), one without
\* position, one without element.
AtomPool ==
    { Atom("O", <<0, 0, 0>>, None),
      Atom("h", <<1, 0, 0>>, None),
      Atom("C", <<0, 0, 0>>, None),
      Atom("N", <<0, 1, 0>>, None),
      [element |-> Some("H"), position |-> None, bondAngles |-> None,
       vseprShape |-> None],
      [element |-> None, position |-> Some(<<1, 1, 0>>), bondAngles |-> None,
       vseprShape |-> None] }

\* Bonds: of each order, from an atom to itself, with an index that is out
\* of range, negative, null, missing or not an integer, and without type.
BondEntryPool ==
    { Bond(0, 1, "single"), Bond(1, 0, "Double"), Bond(0, 1, "TRIPLE"),
      Bond(0, 0, "double"), Bond(0, 2, "single"), Bond(-1, 0, "single"),
      [Bond(0, 0, "single") EXCEPT !.start = JsonNull],
      [Bond(0, 0, "single") EXCEPT !.end = Half(0)],
      [Bond(0, 0, "single") EXCEPT !.start = Undefined],
      [Bond(0, 1, "single") EXCEPT !.type = None] }

MoleculeDescriptions ==
    { [vertices |-> None, faces |-> None, labels |-> None, atoms |-> a,
       bonds |-> b, analysis |-> None] :
        a \in {None} \cup {Some(as) : as \in SeqUpTo(AtomPool, MaxAtoms)},
        b \in {None} \cup {Some(bs) : bs \in SeqUpTo(BondEntryPool, MaxBonds)} }

bcInit ==
    /\ InitApp(<<>>)
    /\ bgData \in MoleculeDescriptions
    /\ bgResult = Throw("")
    /\ bgDone = FALSE

RunBuildChemistry ==
    /\ ~bgDone
    /\ bgResult' = buildChemistryModel(bgData)
    /\ bgDone' = TRUE
    /\ UNCHANGED <<bgData, appVars, historyVars>>

SpecBuildChemistry == bcInit /\ [][RunBuildChemistry]_vars

\* ----------------------------------------------------------------------
\* drawAngleVisualization on its own: three points drawn from a pool
\* (bgData), the function applied once to the empty overlay group.

PointPool ==
    { <<0, 0, 0>>, <<1, 0, 0>>, <<-1, 0, 0>>, <<0, 1, 0>>, <<0, -2, 0>>,
      <<0, 0, 1>>, <<1, 1, 0>> }

daInit ==
    /\ InitApp(<<>>)
    /\ bgData \in [p1 : PointPool, pCenter : PointPool, p2 : PointPool]
    /\ bgResult = Throw("")
    /\ bgDone = FALSE

RunDrawAngle ==
    /\ ~bgDone
    /\ angleVisualizationGroup' =
           drawAngleVisualization(angleVisualizationGroup, bgData.p1,
                                  bgData.pCenter, bgData.p2, "180")
    /\ bgDone' = TRUE
    /\ UNCHANGED <<currentMode, selectedImage, highlightedObjects,
                   generatedModelData, currentSelectionDetails, qaHistory, chat,
                   currentSessionId, generatedObject, sceneChildren, objects, ui,
                   localStorage, savedSessionsList, now, generations, questions,
                   readers, historyVars, bgData, bgResult>>

SpecDrawAngle == daInit /\ [][RunDrawAngle]_vars

\* ======================================================================
\* Properties of buildGeometryModel (checked under SpecBuildGeometry)

\* A triangle is valid when it has exactly 3 indices, each the index of a
\* vertex that is an array of 3 finite numbers.
FiniteCoordinate(c) == c.t = "number" /\ c.finite

ResolvesToFiniteVertex(vertices, ix) ==
    /\ ix >= 0
    /\ ix < Len(vertices)
    /\ IsSome(vertices[ix + 1])
    /\ Len(Get(vertices[ix + 1])) = 3
    /\ \A k \in 1..3 : FiniteCoordinate(Get(vertices[ix + 1])[k])

ValidTriangle(triangle, vertices) ==
    /\ IsSome(triangle.indices)
    /\ Len(Get(triangle.indices)) = 3
    /\ \A k \in 1..3 : ResolvesToFiniteVertex(vertices, Get(triangle.indices)[k])

\* The valid triangles of one face group, in order (none when the group has
\* no triangles array).
ValidTrianglesOf(faceGroup, vertices) ==
    IF IsSome(faceGroup.triangles)
    THEN SelectSeq(Get(faceGroup.triangles), LAMBDA t : ValidTriangle(t, vertices))
    ELSE <<>>

RECURSIVE TotalValidTriangles(_, _, _)
TotalValidTriangles(faces, vertices, i) ==
    IF i > Len(faces) THEN 0
    ELSE Len(ValidTrianglesOf(faces[i], vertices))
         + TotalValidTriangles(faces, vertices, i + 1)

\* The 9 coordinates of a valid triangle.
TrianglePositions(triangle, vertices) ==
    LET ix == Get(triangle.indices)
    IN Get(vertices[ix[1] + 1]) \o Get(vertices[ix[2] + 1]) \o Get(vertices[ix[3] + 1])

PickableMeshes(group) == SelectSeq(group.children, LAMBDA c : c.type = "Mesh")

\* C9: for every solid description that builds, the number of pickable
\* triangle primitives equals the total number of valid triangles over all
\* face groups, every primitive's faceId is the 0-based position of a face
\* group, and the primitives carrying faceId i are exactly the valid
\* triangles of face group i, in order (also when earlier groups were
\* skipped or had triangles dropped).
C9_PrimitivesAreValidTriangles ==
    (bgDone /\ bgResult.ok) =>
        LET faces == Get(bgData.faces)
            vertices == Get(bgData.vertices)
            meshes == PickableMeshes(bgResult.group)
        IN /\ Len(meshes) = TotalValidTriangles(faces, vertices, 1)
           /\ \A m \in 1..Len(meshes) :
                 /\ IsSome(meshes[m].userData.faceId)
                 /\ Get(meshes[m].userData.faceId) \in 0..(Len(faces) - 1)
           /\ \A i \in 1..Len(faces) :
                 LET ofFace == SelectSeq(meshes,
                                   LAMBDA c : c.userData.faceId = Some(i - 1))
                     valid == ValidTrianglesOf(faces[i], vertices)
                 IN /\ Len(ofFace) = Len(valid)
                    /\ \A k \in 1..Len(valid) :
                          ofFace[k].geom = TrianglePositions(valid[k], vertices)

\* Witness for C9: a build succeeded although face group 0 was skipped
\* (no triangles array) and face group 1 had a triangle dropped.
C9_Witness ==
    /\ bgDone /\ bgResult.ok
    /\ Len(Get(bgData.faces)) = 2
    /\ ~IsSome(Get(bgData.faces)[1].triangles)
    /\ IsSome(Get(bgData.faces)[2].triangles)
    /\ Len(Get(Get(bgData.faces)[2].triangles)) = 2
    /\ Len(PickableMeshes(bgResult.group)) = 1
    /\ PickableMeshes(bgResult.group)[1].userData.faceId = Some(1)

NonEmptyArray(o) == IsSome(o) /\ Len(Get(o)) > 0

\* C10: a defective triangle drops only that triangle: a description with
\* non-empty vertices and faces and at least one valid triangle builds, with
\* one primitive per valid triangle; the build fails with the empty-model
\* error exactly when non-empty vertices and faces yield zero valid
\* triangles.
C10_DefectiveTriangleDropsOnlyItself ==
    bgDone =>
        LET nonEmpty == NonEmptyArray(bgData.vertices) /\ NonEmptyArray(bgData.faces)
            valid == IF nonEmpty
                     THEN TotalValidTriangles(Get(bgData.faces), Get(bgData.vertices), 1)
                     ELSE 0
        IN /\ (bgResult.error = ERR_EMPTY_MODEL) <=> (nonEmpty /\ valid = 0)
           /\ (nonEmpty /\ valid > 0) =>
                 /\ bgResult.ok
                 /\ MeshCount(bgResult.group.children) = valid
           /\ ~bgResult.ok => bgResult.error \in {ERR_VERTICES, ERR_FACES, ERR_EMPTY_MODEL}

\* Witness for C10: a build kept one triangle and dropped a defective one
\* of the same face group (index 99 in at most MaxVertices vertices).
C10_Witness ==
    /\ bgDone /\ bgResult.ok
    /\ MeshCount(bgResult.group.children) = 1
    /\ \E i \in 1..Len(Get(bgData.faces)) :
          /\ IsSome(Get(bgData.faces)[i].triangles)
          /\ Get(Get(bgData.faces)[i].triangles)
                = <<[indices |-> Some(<<0, 0, 0>>)], [indices |-> Some(<<0, 0, 99>>)]>>

\* Witness for the failing side of C10: every triangle is defective.
C10_WitnessEmpty ==
    /\ bgDone /\ bgResult.error = ERR_EMPTY_MODEL
    /\ \E i \in 1..Len(Get(bgData.faces)) :
          /\ IsSome(Get(bgData.faces)[i].triangles)
          /\ Len(Get(Get(bgData.faces)[i].triangles)) = 2

\* ----------------------------------------------------------------------
\* Selection, restoration and replacement of the active model

\* The colour a primitive of the active model was built with.
BuildColor(s, q) == NodeAt(s.objects[Get(s.generatedObject)].group, q).color

\* The colour a primitive of the active model shows.
ShownColor(s, q) == s.objects[Get(s.generatedObject)].color[q]

\* The last handler was a pick or a restore that returned normally while a
\* model was active.
ResolvedOnModel ==
    /\ IsSome(lastResolved)
    /\ ~Get(lastResolved).threw
    /\ IsSome(generatedObject)

\* C1: after any sequence of picks and restores on a built model, the
\* primitives showing the highlight colour are exactly those of the entity
\* the last pick or restore resolved (none when it resolved nothing), and
\* every other primitive of the model shows its build colour.
C1_NoHighlightLeakage ==
    ResolvedOnModel =>
        \A q \in Primitives(State) :
            ShownColor(State, q) =
                IF q \in Get(lastResolved).primitives
                THEN HIGHLIGHT_COLOR ELSE BuildColor(State, q)

\* A restore resolved an entity of a model that has other primitives too.
C1_Witness ==
    /\ ResolvedOnModel
    /\ Get(lastResolved).handler = "reHighlightSelection"
    /\ Get(lastResolved).primitives # {}
    /\ Primitives(State) \ Get(lastResolved).primitives # {}
    /\ \A q \in Get(lastResolved).primitives :
          ShownColor(State, q) = HIGHLIGHT_COLOR

\* C2: replacing the active model discards the highlight set with the
\* previous primitives: highlightedObjects never holds a primitive of a
\* model that is detached from the scene.
C2_NoHighlightOfDetachedModel ==
    \A k \in 1..Len(highlightedObjects) :
        highlightedObjects[k].object.id \in sceneChildren

\* C3: a replacement of the active model that ends with a fatal error
\* leaves a model active and attached when one was active before.
C3_FailedRebuildKeepsModel ==
    (IsSome(lastFailed) /\ Get(lastFailed).prior) =>
        /\ IsSome(generatedObject)
        /\ Get(generatedObject) \in sceneChildren

\* C4: a restore whose reference matches no primitive of the active model
\* ends with no highlight, no overlay, no selection and no details shown.
C4_UnmatchedRestoreSelectsNothing ==
    ( /\ ResolvedOnModel
      /\ Get(lastResolved).handler = "reHighlightSelection"
      /\ Get(lastResolved).primitives = {} ) =>
        /\ highlightedObjects = <<>>
        /\ angleVisualizationGroup = <<>>
        /\ currentSelectionDetails = None
        /\ ui.selectionDetailsHidden

\* The last handler restored a reference of the given type that designates
\* the entity of the recorded pick, on a model rebuilt from the description
\* the pick was made on.
RestoredAfterPick(types) ==
    /\ ResolvedOnModel
    /\ Get(lastResolved).handler = "reHighlightSelection"
    /\ IsSome(lastPick)
    /\ Get(lastPick).rebuilt
    /\ IsSome(currentSelectionDetails)
    /\ Get(currentSelectionDetails).type \in types
    /\ Get(currentSelectionDetails).type = Get(lastPick).ref.type
    /\ Get(currentSelectionDetails).id = Get(lastPick).ref.id
    /\ objects[Get(generatedObject)].group = Get(lastPick).group

\* C5: an atom selection restored from its stored reference on a rebuilt
\* model highlights the one sphere the pick highlighted, shows the same
\* details and draws the same overlays.
C5_AtomRoundTrip ==
    RestoredAfterPick({"chemistry_atom"}) =>
        /\ HighlightSetOf(State) = Get(lastPick).highlighted
        /\ Len(highlightedObjects) = 1
        /\ ui.selectionDetailsContent = Get(lastPick).shown
        /\ angleVisualizationGroup = Get(lastPick).overlays

\* An atom with bond angles was picked, stored and restored after a reload.
C5_Witness ==
    /\ RestoredAfterPick({"chemistry_atom"})
    /\ angleVisualizationGroup # <<>>
    /\ Len(highlightedObjects) = 1

\* C6: a face or bond selection restored from its stored reference
\* highlights the primitives the pick highlighted.
C6_RestoreEqualsPick ==
    RestoredAfterPick({"geometry_face", "chemistry_bond"}) =>
        HighlightSetOf(State) = Get(lastPick).highlighted

\* C7: the highlighted primitives all belong to one entity.
C7_OneEntityHighlighted ==
    IsSome(generatedObject) =>
        \A q1, q2 \in HighlightSetOf(State) :
            q2 \in PickedEntity(State, Some(q1))

\* A generation has detached the previous model and has neither installed
\* the new one nor failed.
Replacing ==
    \E g \in BagToSet(generations) : g.pc \in {"timer1", "response", "timer2"}

\* C8: no other handler executes between the detachment of the previous
\* model and the installation or failure in handleGenerateClick: what the
\* handler never writes is unchanged in between.
C8_RunToCompletion ==
    [][Replacing =>
          /\ currentMode' = currentMode
          /\ selectedImage' = selectedImage
          /\ readers' = readers
          /\ highlightedObjects' = highlightedObjects
          /\ currentSelectionDetails' = currentSelectionDetails
          /\ savedSessionsList' = savedSessionsList
          /\ ui'.loadModalHidden = ui.loadModalHidden]_vars

\* ----------------------------------------------------------------------
\* The chemistry builder

\* The atoms of the description all carry an element.
AtomsBuild(data) ==
    \A i \in 1..Len(Get(data.atoms)) : AtomBuilds(Get(data.atoms)[i])

\* The bonds array of the description ([] when there is none).
BondsOf(data) == IF IsSome(data.bonds) THEN Get(data.bonds) ELSE <<>>

\* Both ends of the bond are integers that index the atoms.
ValidBond(bond, nAtoms) ==
    /\ bond.start.t = "number" /\ bond.start.v \in 0..(nAtoms - 1)
    /\ bond.end.t = "number" /\ bond.end.v \in 0..(nAtoms - 1)

\* The bond groups of a built molecule: the children carrying bond details.
BondGroupsOf(group) == SelectSeq(group.children, LAMBDA c : DetailsType(c) # "")

\* C11: for every molecule description with at least one atom (whose atoms
\* carry an element and whose bonds carry a type), the build returns, with
\* one bond group for each bond whose start and end are both valid atom
\* indices, in order, and none for any other bond.
C11_BadBondIndexIsDropped ==
    ( /\ bgDone
      /\ NonEmptyArray(bgData.atoms)
      /\ AtomsBuild(bgData)
      /\ \A i \in 1..Len(BondsOf(bgData)) : BondBuilds(BondsOf(bgData)[i]) ) =>
        LET n == Len(Get(bgData.atoms))
            valid == SelectSeq(BondsOf(bgData), LAMBDA b : ValidBond(b, n))
        IN /\ bgResult.ok
           /\ Len(BondGroupsOf(bgResult.group)) = Len(valid)
           /\ \A k \in 1..Len(valid) :
                 LET d == Get(BondGroupsOf(bgResult.group)[k].userData.details)
                 IN /\ d.startAtomIndex = valid[k].start.v
                    /\ d.endAtomIndex = valid[k].end.v

\* C12: a builder fails only for a missing or empty required top-level
\* collection, with the error naming it; every other malformed content is
\* normalized or skipped and the build returns.  (Stated for molecule
\* descriptions whose bond indices are integers.)
C12_OnlySchemaErrors ==
    ( /\ bgDone
      /\ \A i \in 1..Len(BondsOf(bgData)) :
            /\ BondsOf(bgData)[i].start.t = "number"
            /\ BondsOf(bgData)[i].end.t = "number" ) =>
        /\ ~bgResult.ok => bgResult.error \in {ERR_NO_ATOMS, ERR_EMPTY_ATOMS}
        /\ NonEmptyArray(bgData.atoms) => bgResult.ok

\* The cylinder meshes of a bond group, in order.
CylindersOf(bondGroup) ==
    [k \in 1..Len(bondGroup.children) |-> bondGroup.children[k].children[1]]

\* The cylinders of a bond group that are displaced from the bond axis.
OffAxis(bondGroup) ==
    IF Len(bondGroup.children) = 2 THEN <<1, 2>>
    ELSE IF Len(bondGroup.children) = 3 THEN <<2, 3>>
    ELSE <<>>

\* C14: every bond the builder accepts has 1, 2 or 3 cylinders for a single,
\* double or triple bond (case-insensitively), and the off-axis cylinders
\* of a double or triple bond are displaced in opposite directions,
\* perpendicular to the bond axis, by an equal distance that is not zero.
\* (A cylinder's offset is a position in its cylinder group, whose Y axis the
\* group's rotation turns onto the bond axis.)
C14_BondCylindersOffset ==
    (bgDone /\ bgResult.ok) =>
        \A b \in 1..Len(BondGroupsOf(bgResult.group)) :
            LET bondGroup == BondGroupsOf(bgResult.group)[b]
                d == Get(bondGroup.userData.details)
                order == ToLowerCase(d.type)
                off == OffAxis(bondGroup)
                cylinders == CylindersOf(bondGroup)
            IN /\ Len(cylinders) = (CASE order = "double" -> 2
                                      [] order = "triple" -> 3
                                      [] OTHER -> 1)
               /\ off # <<>> =>
                     /\ cylinders[off[1]].geom # ZeroVector
                     /\ cylinders[off[1]].geom =
                            MultiplyScalar(cylinders[off[2]].geom, -1)
                     /\ Dot(cylinders[off[1]].geom, <<0, 1, 0>>) = 0

\* ----------------------------------------------------------------------
\* The angle overlay

\* C15: drawAngleVisualization called with p1 = pCenter or p2 = pCenter adds
\* nothing to the angle overlay group.
C15_ZeroLengthRayDrawsNothing ==
    (bgDone /\ (bgData.p1 = bgData.pCenter \/ bgData.p2 = bgData.pCenter)) =>
        angleVisualizationGroup = <<>>

\* The two rays from pCenter point in opposite directions.
OppositeRays ==
    LET v1 == SubVectors(bgData.p1, bgData.pCenter)
        v2 == SubVectors(bgData.p2, bgData.pCenter)
    IN /\ v1 # ZeroVector /\ v2 # ZeroVector
       /\ CrossVectors(v1, v2) = ZeroVector
       /\ Dot(v1, v2) < 0

\* C16: drawAngleVisualization called with two opposite rays adds an arc and
\* a label, and places the label from pCenter along the basis Y axis, a
\* direction that is not zero and not on the line through p1 and p2.
C16_OppositeRaysLabelOffLine ==
    (bgDone /\ OppositeRays) =>
        /\ Len(angleVisualizationGroup) = 2
        /\ angleVisualizationGroup[1].type = "Object3D"
        /\ angleVisualizationGroup[2].type = "Sprite"
        /\ angleVisualizationGroup[2].bisector.alongYAxis
        /\ CrossVectors(angleVisualizationGroup[2].bisector.yAxis,
                        SubVectors(bgData.p1, bgData.p2)) # ZeroVector

\* The example of the claim: p1 = (1,0,0), pCenter = (0,0,0), p2 = (-1,0,0).
C16_Witness ==
    /\ bgDone
    /\ bgData = [p1 |-> <<1, 0, 0>>, pCenter |-> <<0, 0, 0>>, p2 |-> <<-1, 0, 0>>]
    /\ Len(angleVisualizationGroup) = 2
    /\ angleVisualizationGroup[2].bisector.yAxis = <<0, 1, 0>>

\* ----------------------------------------------------------------------
\* Errors of picking, restoring and loading

\* C13: pick, resolve and restore never raise: every onCanvasClick and
\* every reHighlightSelection returns normally.
C13_PickAndRestoreNeverRaise ==
    IsSome(lastResolved) => ~Get(lastResolved).threw

\* C19: when a generation or the loading of a saved session has failed, an
\* error message is visible once the handler has finished.
C19_FailureShowsError ==
    IsSome(lastFailed) => IsSome(ui.errorMessage)

\* The messages of the errors the two builders raise on the responses and
\* stored models of the specification.
BuilderErrors ==
    {ERR_VERTICES, ERR_FACES, ERR_EMPTY_MODEL, ERR_NO_ATOMS, ERR_EMPTY_ATOMS, TYPE_ERROR}

\* C20: a handler that ends with a failure (of the builder, the parser or
\* the request) attaches nothing to the scene, changes no attached group,
\* and leaves generatedObject null or as it was.
C20_NoPartialScene ==
    [][IsSome(lastFailed') =>
          /\ sceneChildren' \subseteq sceneChildren
          /\ \A id \in sceneChildren' : objects'[id] = objects[id]
          /\ generatedObject' \in {None, generatedObject}]_vars

\* A builder has failed while another model was attached.
C20_Witness ==
    /\ IsSome(lastFailed)
    /\ IsSome(ui.errorMessage)
    /\ Get(ui.errorMessage) \in BuilderErrors
    /\ sceneChildren # {}

\* ----------------------------------------------------------------------
\* Pick resolution

\* The entity a hit primitive belongs to by its tags: the primitives with
\* its faceId; or those under the nearest ancestor group tagged as a bond;
\* or the primitive alone when it is tagged as an atom.
TaggedEntity(s, hit) ==
    IF ~IsSome(hit) THEN {}
    ELSE LET root == s.objects[Get(s.generatedObject)].group
             p == Get(hit)
             node == NodeAt(root, p)
             owners == {g \in Prefixes(p) \ {p} :
                           /\ NodeAt(root, g).type = "Group"
                           /\ DetailsType(NodeAt(root, g)) # ""}
         IN IF node.type # "Mesh" THEN {}
            ELSE IF IsSome(node.userData.faceId)
            THEN {q \in Primitives(s) :
                     NodeAt(root, q).userData.faceId = node.userData.faceId}
            ELSE IF owners # {}
            THEN {q \in Primitives(s) :
                     \E g \in owners : /\ IsPrefix(g, q)
                                       /\ \A h \in owners : Len(h) <= Len(g)}
            ELSE IF DetailsElement(node) # "" THEN {p}
            ELSE {}

\* C18: a pick that returns highlights exactly the entity of the hit
\* primitive: every primitive with the hit's faceId, every cylinder of the
\* bond group owning the hit cylinder, the hit atom sphere alone; nothing
\* outside the active model is highlighted.
C18_PickResolvesEntity ==
    IsSome(generatedObject) =>
        \A hit \in Pickable(State) :
            ~PickThrows(State, hit) =>
                LET n == onCanvasClick(State, hit)
                IN /\ HighlightSetOf(n) = TaggedEntity(State, hit)
                   /\ \A k \in 1..Len(n.highlightedObjects) :
                         n.highlightedObjects[k].object.id = Get(generatedObject)

\* ----------------------------------------------------------------------
\* References and the scene

\* The details of the reference are an object of the tag of a primitive of
\* a group attached to the scene.
SharesTagObject(sel) ==
    IsSome(sel.detailsOf) /\ Get(sel.detailsOf) \in sceneChildren

\* C17: the reference recorded by a pick (currentSelectionDetails, and the
\* selectionContext of a Q&A pair) shares no object with the tag of a scene
\* primitive.
C17_ReferenceIsDeepCopy ==
    /\ IsSome(currentSelectionDetails) => ~SharesTagObject(Get(currentSelectionDetails))
    /\ \A k \in 1..Len(qaHistory) :
          IsSome(qaHistory[k].selectionContext) =>
              ~SharesTagObject(Get(qaHistory[k].selectionContext))

\* ----------------------------------------------------------------------
\* Deselection, labels, selection and highlight

\* The last handler was a canvas click that returned and resolved nothing.
ClickedNothing ==
    /\ IsSome(lastResolved)
    /\ Get(lastResolved).handler = "onCanvasClick"
    /\ ~Get(lastResolved).threw
    /\ Get(lastResolved).primitives = {}

\* C21: a canvas click that hits no primitive, or that happens while no
\* model is active, leaves highlightedObjects empty, every primitive that was
\* highlighted (of a group still attached) with its recorded colour, the
\* angle overlay group empty and no current selection.
C21_ClickOnNothingDeselects ==
    [][ClickedNothing' =>
          /\ highlightedObjects' = <<>>
          /\ angleVisualizationGroup' = <<>>
          /\ currentSelectionDetails' = None
          /\ ui'.selectionDetailsHidden
          /\ \A k \in 1..Len(highlightedObjects) :
                LET h == highlightedObjects[k]
                IN h.object.id \in sceneChildren' =>
                      objects'[h.object.id].color[h.object.path] = h.originalColor]_vars

\* An entity was picked earlier and the last click resolved nothing on the
\* active model.
C21_Witness ==
    /\ ClickedNothing
    /\ IsSome(lastPick)
    /\ IsSome(generatedObject)
    /\ highlightedObjects = <<>>

\* C22: a label is never selected: after a click whose first hit is a label
\* nothing is highlighted and no selection is recorded, and no entry of
\* highlightedObjects is anything but a Mesh.
C22_LabelsNotSelectable ==
    /\ (IsSome(lastResolved) /\ Get(lastResolved).onLabel) =>
           /\ highlightedObjects = <<>>
           /\ currentSelectionDetails = None
    /\ \A k \in 1..Len(highlightedObjects) :
          LET h == highlightedObjects[k]
          IN NodeAt(objects[h.object.id].group, h.object.path).type = "Mesh"

\* A label of the active model was clicked after an entity had been picked.
C22_Witness ==
    /\ IsSome(lastResolved)
    /\ Get(lastResolved).onLabel
    /\ IsSome(lastPick)
    /\ IsSome(generatedObject)

\* ----------------------------------------------------------------------
\* The basis of the angle overlay

\* The rays of the call of SpecDrawAngle.
RayV1 == SubVectors(bgData.p1, bgData.pCenter)
RayV2 == SubVectors(bgData.p2, bgData.pCenter)

\* C23: for a non-zero v1 and any v2 the normal of the arc is not zero, also
\* when v1 x v2 is zero, and the basis (v1, normal x v1, normal) is
\* orthogonal; two rays in the same direction produce no overlay.
C23_OverlayBasis ==
    (bgDone /\ RayV1 # ZeroVector) =>
        LET normal == AngleNormal(RayV1, RayV2)
            yAxis == AngleYAxis(RayV1, RayV2)
        IN /\ normal # ZeroVector
           /\ yAxis # ZeroVector
           /\ Dot(normal, RayV1) = 0
           /\ Dot(yAxis, RayV1) = 0
           /\ Dot(yAxis, normal) = 0
           /\ \A k \in 1..Len(angleVisualizationGroup) :
                 angleVisualizationGroup[k].bisector.yAxis = yAxis
           /\ (/\ RayV2 # ZeroVector
               /\ CrossVectors(RayV1, RayV2) = ZeroVector
               /\ Dot(RayV1, RayV2) > 0) => angleVisualizationGroup = <<>>

\* v1 lies along X and v1 x v2 is zero: the second substitute axis is used,
\* and an overlay is drawn.
C23_Witness ==
    /\ bgDone
    /\ RayV1 # ZeroVector
    /\ RayV1[2] = 0 /\ RayV1[3] = 0
    /\ CrossVectors(RayV1, RayV2) = ZeroVector
    /\ Len(angleVisualizationGroup) = 2

\* ----------------------------------------------------------------------
\* The atom position table and the angle requests

\* The angle entries of `bondAngles` whose atomsInvolvedIndices are three
\* indices of a table of n positions, in order.
ResolvingEntries(bondAngles, n) ==
    SelectSeq(bondAngles,
              LAMBDA e : /\ IsSome(e.atomsInvolvedIndices)
                         /\ Len(Get(e.atomsInvolvedIndices)) = 3
                         /\ \A j \in 1..3 :
                               Get(e.atomsInvolvedIndices)[j] \in 0..(n - 1))

RECURSIVE OverlaysOf(_, _)
\* The overlays of one drawAngleVisualization call per entry, in order.
OverlaysOf(entries, table) ==
    IF entries = <<>> THEN <<>>
    ELSE LET ix == Get(Head(entries).atomsInvolvedIndices)
         IN drawAngleVisualization(<<>>, table[ix[1] + 1], table[ix[2] + 1],
                                   table[ix[3] + 1], Head(entries).angle)
            \o OverlaysOf(Tail(entries), table)

\* The last pick or restore returned with one atom sphere highlighted.
AtomSelected ==
    /\ ResolvedOnModel
    /\ IsSome(currentSelectionDetails)
    /\ Get(currentSelectionDetails).type = "chemistry_atom"
    /\ Len(highlightedObjects) = 1

\* C24: the position table of a built molecule has one entry per atom of
\* the description, entry i being the scaled position of atom i; and after
\* an atom is selected or restored the overlay group holds what one call of
\* drawAngleVisualization per angle entry with three resolving indices
\* draws, in order, and nothing for the other entries.
C24_PositionTableAndAngleRequests ==
    (IsSome(generatedObject) /\ currentMode = "chemistry") =>
        LET atoms == Get(JSONparse(Get(generatedModelData)).atoms)
            table == Get(objects[Get(generatedObject)].group.userData.atomPositions)
        IN /\ Len(table) = Len(atoms)
           /\ \A i \in 1..Len(atoms) :
                 table[i] = MultiplyScalar(IF IsSome(atoms[i].position)
                                           THEN Get(atoms[i].position)
                                           ELSE ZeroVector, CHEM_MODEL_SCALE)
           /\ AtomSelected =>
                 angleVisualizationGroup =
                     OverlaysOf(ResolvingEntries(
                                    BondAnglesOf(Get(currentSelectionDetails).details),
                                    Len(table)),
                                table)

\* An atom is selected one of whose angle entries resolves and another does
\* not.
C24_Witness ==
    /\ AtomSelected
    /\ angleVisualizationGroup # <<>>
    /\ LET entries == BondAnglesOf(Get(currentSelectionDetails).details)
       IN 0 < Len(ResolvingEntries(entries, 3))
          /\ Len(ResolvingEntries(entries, 3)) < Len(entries)

\* ----------------------------------------------------------------------
\* Generation interleaved with the other handlers

\* C25: at most one built model is attached to the scene, and it is the
\* one generatedObject refers to.
C25_OneModelAttached ==
    /\ Cardinality(sceneChildren) <= 1
    /\ \A id \in sceneChildren : generatedObject = Some(id)
    /\ IsSome(generatedObject) => Get(generatedObject) \in sceneChildren

\* C26: from the start of handleGenerateClick until it has finished, the
\* generate control is disabled.
C26_GenerateDisabledInFlight ==
    BagCardinality(generations) > 0 => ui.generateBtnDisabled

\* The builder a group was built by: only buildChemistryModel sets
\* userData.atomPositions.
VariantOf(group) ==
    IF IsSome(group.userData.atomPositions) THEN "chemistry" ELSE "geometry"

\* C27: whenever a model is active, currentMode is not null and is the
\* variant the model was built with.
C27_ModeMatchesActiveModel ==
    IsSome(generatedObject) =>
        /\ currentMode \in Modes
        /\ currentMode = VariantOf(objects[Get(generatedObject)].group)

\* C28: in every state reached after a handler has finished, primitives are
\* highlighted if and only if a current selection is recorded.
C28_SelectionIffHighlight ==
    (highlightedObjects # <<>>) <=> IsSome(currentSelectionDetails)

\* C29: whenever no generation is in flight, generatedModelData is not null
\* if and only if a model is active, and the active model is what the
\* builder of currentMode makes of that data.
C29_ModelDataIffModel ==
    BagCardinality(generations) = 0 =>
        /\ IsSome(generatedModelData) <=> IsSome(generatedObject)
        /\ IsSome(generatedObject) =>
              LET text == Get(generatedModelData)
              IN /\ text.parses
                 /\ BuildModel(currentMode, JSONparse(text)).ok
                 /\ BuildModel(currentMode, JSONparse(text)).group
                        = objects[Get(generatedObject)].group

\* ----------------------------------------------------------------------
\* Questions and the selection

\* C30: the selection reference stored with an answered question is the
\* selection that was active when the question was asked, whose details
\* were sent with it: a pair holds a reference exactly when details were
\* sent with its question.
C30_PairHoldsSelectionAsked ==
    [][\A q \in BagToSet(questions) :
          (/\ questions' = questions (-) SetToBag({q})
           /\ Len(qaHistory') = Len(qaHistory) + 1
           /\ qaHistory'[1].answer # SORRY)
          => (IsSome(qaHistory'[1].selectionContext) <=> q.withSelection)]_vars


\* ----------------------------------------------------------------------
\* C31: an answer that arrives after the context it was asked in has been
\* replaced (new generation, reset, session load) is not added to the Q&A
\* history: no step that completes a superseded handleAskQuestion call
\* lengthens qaHistory.
C31_NoAnswerAcrossContexts ==
    [][\A q \in BagToSet(questions) :
          (/\ questions' = questions (-) SetToBag({q})
           /\ Len(qaHistory') = Len(qaHistory) + 1)
          => ~q.superseded]_vars


\* ----------------------------------------------------------------------
\* C32: saving is idempotent on the session identity

\* The positions of the stored sessions with the given id.
StoredWithId(stored, id) == {k \in 1..Len(stored) : stored[k].id = id}

\* The step is a call of handleSaveSession that passed its guard, with
\* Date.now() = t.
SavedAt(t) ==
    /\ IsSome(generatedModelData) /\ selectedImage /\ currentMode # "null"
    /\ State' = handleSaveSession(State, t)

\* C32: after every successful handleSaveSession exactly one stored session
\* has the id currentSessionId, and it holds the current model data, mode
\* and Q&A history (as JSON.stringify writes them); a save in a context whose
\* session is stored replaces that entry and keeps the number of stored
\* sessions and the session id; the stored ids are pairwise distinct.
C32_SaveIsIdempotent ==
    [][\A t \in 1..MaxSaveClock :
          SavedAt(t) =>
             /\ IsSome(currentSessionId')
             /\ \E k \in 1..Len(localStorage') :
                   /\ StoredWithId(localStorage', Get(currentSessionId')) = {k}
                   /\ localStorage'[k].modelData = Get(generatedModelData')
                   /\ localStorage'[k].mode = currentMode'
                   /\ localStorage'[k].qaHistory =
                         [j \in 1..Len(qaHistory') |-> StringifyPair(qaHistory'[j])]
             /\ (/\ IsSome(currentSessionId)
                 /\ StoredWithId(localStorage, Get(currentSessionId)) # {})
                => /\ Len(localStorage') = Len(localStorage)
                   /\ currentSessionId' = currentSessionId
             /\ \A j, k \in 1..Len(localStorage') :
                   localStorage'[j].id = localStorage'[k].id => j = k]_vars

\* A session was created next to the stored one, the stored one loaded,
\* a question answered in it and the session saved again.
C32_Witness ==
    /\ Len(localStorage) = MaxSaved
    /\ currentSessionId = Some(1)
    /\ \E k \in StoredWithId(localStorage, 1) :
          /\ Len(localStorage[k].qaHistory) > 0
          /\ localStorage[k].qaHistory =
                [j \in 1..Len(qaHistory) |-> StringifyPair(qaHistory[j])]


\* ----------------------------------------------------------------------
\* C33: angle overlays never outlive an atom selection: whenever the angle
\* overlay group is non-empty, the current selection is an atom of the
\* active model and highlightedObjects holds that atom's sphere.
C33_OverlaysOnlyWithAtom ==
    angleVisualizationGroup # <<>> =>
        /\ IsSome(generatedObject)
        /\ IsSome(currentSelectionDetails)
        /\ Get(currentSelectionDetails).type = "chemistry_atom"
        /\ ReferencedEntity(State, Get(currentSelectionDetails)) # {}
        /\ ReferencedEntity(State, Get(currentSelectionDetails))
              \subseteq HighlightSetOf(State)


\* ----------------------------------------------------------------------
\* C34: no primitive appears twice in highlightedObjects, and every recorded
\* originalColor is the colour the primitive was built with, never the
\* highlight colour.
C34_HighlightSetRecordsBuildColours ==
    \A k \in 1..Len(highlightedObjects) :
        LET h == highlightedObjects[k]
        IN /\ \A j \in 1..Len(highlightedObjects) :
                 highlightedObjects[j].object = h.object => j = k
           /\ h.originalColor = NodeAt(objects[h.object.id].group, h.object.path).color
           /\ h.originalColor # HIGHLIGHT_COLOR

\* A restore highlighted several primitives of the active model at once.
C34_Witness ==
    /\ IsSome(lastResolved)
    /\ Get(lastResolved).handler = "reHighlightSelection"
    /\ Len(highlightedObjects) > 1
    /\ \A k \in 1..Len(highlightedObjects) :
          /\ generatedObject = Some(highlightedObjects[k].object.id)
          /\ ShownColor(State, highlightedObjects[k].object.path) = HIGHLIGHT_COLOR


\* ----------------------------------------------------------------------
\* C35: every started generation eventually leaves the loading state: once
\* a handleGenerateClick call is suspended, the loading indicator is
\* eventually hidden and the generate control enabled.
C35_GenerationLeavesLoading ==
    (generations # EmptyBag) ~> (ui.loadingHidden /\ ~ui.generateBtnDisabled)

\* A generation that failed has left the loading state.
C35_Witness ==
    /\ IsSome(lastFailed)
    /\ Get(lastFailed).handler = "handleGenerateClick"
    /\ generations = EmptyBag
    /\ ui.loadingHidden
    /\ ~ui.generateBtnDisabled


\* ----------------------------------------------------------------------
\* C36: handleGenerateClick called without a selected image or without a
\* mode reports the error and changes nothing else: the step that puts up
\* its error message leaves the active model, the scene, highlightedObjects,
\* the selection, the Q&A history, the model data, the session id and every
\* other variable as they were, and suspends no call (no request is sent).
C36_RejectedGenerateChangesNothing ==
    [][(/\ ~selectedImage \/ currentMode = "null"
        /\ ui.errorMessage # Some(ERR_GENERATE)
        /\ ui'.errorMessage = Some(ERR_GENERATE))
       => /\ State' = [State EXCEPT !.ui.errorMessage = Some(ERR_GENERATE)]
          /\ generations' = generations]_vars

\* The click was rejected while a model was active.
C36_Witness ==
    /\ ui.errorMessage = Some(ERR_GENERATE)
    /\ ~selectedImage \/ currentMode = "null"
    /\ IsSome(generatedObject)
    /\ generations = EmptyBag

=============================================================================
